---- MODULE Spec2Model ----
(***************************************************************************)
(* Model of the path parsers of cisco_gnmi.                                *)
(*                                                                         *)
(*   parse_xpath_to_gnmi_path   src/src/cisco_gnmi/xpath_util.py 13-95     *)
(*                              (src/src/cisco_gnmi/path.py 17-98 is the   *)
(*                              same text)                                 *)
(*   parse_dn_to_gnmi_path      src/src/cisco_gnmi/path.py 101-179         *)
(*   parse_path_to_xpath        src/src/cisco_gnmi/flatten.py 111-119      *)
(*                                                                         *)
(* Text is a sequence of one-character strings, so that tokenizing,        *)
(* stripping and rendering are computed and not assumed.  The tokenizer is *)
(* xml.etree.ElementPath.xpath_tokenizer_re, used through findall():       *)
(*                                                                         *)
(*   ('[^']*'|"[^"]*"|::|//?|\.\.|\(\)|!=|[/.*:\[\]\(\)@=])                  *)
(*   |((?:\{[^}]+\})?[^/\[\]\(\)@!=\s]+)|\s+                               *)
(*                                                                         *)
(* Every match is a pair (group 1, group 2); a run of white space matches  *)
(* with both groups empty, and a character no alternative matches (a '!'   *)
(* that is not followed by '=') is skipped by findall().                   *)
(***************************************************************************)
EXTENDS Integers, Sequences, FiniteSets, TLC

VARIABLES
    parser,         \* "xpath": parse_xpath_to_gnmi_path, "dn": parse_dn_to_gnmi_path
    xpath,          \* the xpath (dn) argument of the running call
    origin,         \* the origin argument (<<>> is None)
    xpath_elements, \* the tokens, xpath_tokenizer_re.findall(xpath.strip("/"))
    index,          \* position of the loop in xpath_elements
    curr_elem,      \* the PathElem under construction
    in_filter,
    just_filtered,
    curr_key,       \* <<>> is None, <<k>> is the string k
    curr_key_operator_found, \* parse_dn_to_gnmi_path only
    curr_key_val,   \* parse_dn_to_gnmi_path only; <<>> is None, <<v>> the string v
    path_elems,     \* the committed PathElems
    path,           \* the returned Path, once pc = "returned"
    pc,             \* "start", "loop", "returned", "raised"
    pass,           \* 1: the caller's string, 2: the re-parse of a rendered Path
    first,          \* in pass 2, the Path that was rendered
    call,           \* the library function a caller runs ("parse": the parsers above)
    args,           \* its arguments
    ret,            \* its outcome, [st |-> "pending" | "returned" | "raised", val |-> ...]
    heap,           \* the dicts and lists that outlive a call, by identity;
                    \* heap[1] is the default of xpath_to_json's payload
    made            \* the calls of xpath_to_json and get_payload made so far

\* the call of another library function; the parsers leave it alone
Calls == <<call, args, ret, heap, made>>

vars == <<parser, xpath, origin, xpath_elements, index, curr_elem, in_filter,
          just_filtered, curr_key, curr_key_operator_found, curr_key_val,
          path_elems, path, pc, pass, first, call, args, ret, heap, made>>

----------------------------------------------------------------------------
(* Text helpers *)

Min(S) == CHOOSE x \in S : \A y \in S : x <= y

Max(S) == CHOOSE x \in S : \A y \in S : x >= y

\* str.strip(chars): drop every leading and trailing character that is in chars
Strip(s, chars) ==
    LET keep == {i \in 1..Len(s) : s[i] \notin chars}
    IN  IF keep = {} THEN <<>> ELSE SubSeq(s, Min(keep), Max(keep))

RECURSIVE Concat(_)
Concat(ss) == IF ss = <<>> THEN <<>> ELSE Head(ss) \o Concat(Tail(ss))

RECURSIVE SeqsUpTo(_, _)
\* the sequences of at most n members of S
SeqsUpTo(S, n) ==
    IF n = 0 THEN {<<>>}
    ELSE LET shorter == SeqsUpTo(S, n - 1)
         IN  shorter \cup {Append(q, x) : q \in shorter, x \in S}

\* F of the value of e, which is computed once
Bind(e, F(_)) == CHOOSE out \in {F(v) : v \in {e}} : TRUE

RECURSIVE Split(_, _)
\* s.split(sep) for a separator of one character
Split(text, sep) ==
    Bind(text, LAMBDA s :
        LET at == {i \in 1..Len(s) : s[i] = sep}
        IN  IF at = {} THEN <<s>>
            ELSE <<SubSeq(s, 1, Min(at) - 1)>>
                 \o Split(SubSeq(s, Min(at) + 1, Len(s)), sep))

\* s.startswith(t), s.endswith(t), t in s
StartsWith(s, t) == Len(t) <= Len(s) /\ SubSeq(s, 1, Len(t)) = t
EndsWith(s, t) == Len(t) <= Len(s) /\ SubSeq(s, Len(s) - Len(t) + 1, Len(s)) = t
Contains(s, t) == \E i \in 1..(Len(s) - Len(t) + 1) : SubSeq(s, i, i + Len(t) - 1) = t

----------------------------------------------------------------------------
(* xpath_tokenizer_re.findall *)

WhiteSpace == {" "}

Quotes == {"'", "\""}

\* [/.*:\[\]\(\)@=]
SingleTokens == {"/", ".", "*", ":", "[", "]", "(", ")", "@", "="}

\* the complement of [^/\[\]\(\)@!=\s]
NotInName == {"/", "[", "]", "(", ")", "@", "!", "="} \cup WhiteSpace

\* first position >= i of s that holds a character of set cs, Len(s)+1 if none
FirstIn(s, cs, i) ==
    LET hits == {j \in i..Len(s) : s[j] \in cs}
    IN  IF hits = {} THEN Len(s) + 1 ELSE Min(hits)

\* first position >= i of s that holds a character outside cs, Len(s)+1 if none
FirstNotIn(s, cs, i) ==
    LET hits == {j \in i..Len(s) : s[j] \notin cs}
    IN  IF hits = {} THEN Len(s) + 1 ELSE Min(hits)

Token(g1, g2) == [g1 |-> g1, g2 |-> g2]

\* The match that starts at position i of s, as [tok, next], or next alone
\* (tok = <<>>) when no alternative matches at i.
MatchAt(s, i) ==
    LET c    == s[i]
        nxt  == IF i < Len(s) THEN s[i + 1] ELSE ""
        two  == [tok |-> <<Token(SubSeq(s, i, i + 1), <<>>)>>, next |-> i + 2]
        one  == [tok |-> <<Token(<<c>>, <<>>)>>, next |-> i + 1]
        q    == FirstIn(s, {c}, i + 1)
        \* (?:\{[^}]+\})? : a brace group, taken when a name character follows it
        b    == FirstIn(s, {"}"}, i + 1)
        brace == c = "{" /\ b > i + 1 /\ b < Len(s) /\ s[b + 1] \notin NotInName
        e    == IF brace THEN FirstIn(s, NotInName, b + 1)
                         ELSE FirstIn(s, NotInName, i)
        w    == FirstNotIn(s, WhiteSpace, i)
    IN  IF c \in Quotes /\ q <= Len(s)
          THEN [tok |-> <<Token(SubSeq(s, i, q), <<>>)>>, next |-> q + 1]
        ELSE IF c = ":" /\ nxt = ":" THEN two
        ELSE IF c = "/" /\ nxt = "/" THEN two
        ELSE IF c = "." /\ nxt = "." THEN two
        ELSE IF c = "(" /\ nxt = ")" THEN two
        ELSE IF c = "!" /\ nxt = "=" THEN two
        ELSE IF c \in SingleTokens THEN one
        ELSE IF c \notin NotInName
          THEN [tok |-> <<Token(<<>>, SubSeq(s, i, e - 1))>>, next |-> e]
        ELSE IF c \in WhiteSpace
          THEN [tok |-> <<Token(<<>>, <<>>)>>, next |-> w]
        ELSE [tok |-> <<>>, next |-> i + 1]

RECURSIVE FindAllFrom(_, _)
FindAllFrom(s, i) ==
    IF i > Len(s) THEN <<>>
    ELSE LET m == MatchAt(s, i) IN m.tok \o FindAllFrom(s, m.next)

findall(s) == FindAllFrom(s, 1)

----------------------------------------------------------------------------
(* gnmi_pb2.PathElem and gnmi_pb2.Path *)

\* map<string, string> with no entry
EmptyMap == [k \in {} |-> <<>>]

\* key[k] = v on a map field
Put(key, k, v) == [x \in DOMAIN key \cup {k} |-> IF x = k THEN v ELSE key[x]]

\* proto.gnmi_pb2.PathElem()
PathElem == [name |-> <<>>, key |-> EmptyMap]

\* bool(message): a protobuf message defines neither __bool__ nor __len__,
\* so `if curr_elem:` takes the object default
MessageTruthy(m) == TRUE

----------------------------------------------------------------------------
(* parse_xpath_to_gnmi_path and parse_dn_to_gnmi_path                      *)
(* Line numbers are those of xpath_util.py; where parse_dn_to_gnmi_path    *)
(* has the same statements, its lines in path.py follow in brackets.       *)

None == <<>>

Some(s) == <<s>>

element == xpath_elements[index]

InLoop == pc = "loop" /\ index <= Len(xpath_elements)

\* the locals that only parse_dn_to_gnmi_path has
DnLocals == <<curr_key_operator_found, curr_key_val>>

Raise ==
    /\ pc' = "raised"
    /\ UNCHANGED <<parser, xpath, origin, xpath_elements, index, curr_elem,
                   in_filter, just_filtered, curr_key, DnLocals, path_elems,
                   path, pass, first, Calls>>

Continue ==
    /\ index' = index + 1
    /\ UNCHANGED <<parser, xpath, origin, xpath_elements, path, pc, pass, first,
                   Calls>>

\* lines 22-36 [105-121]: the Path gets its origin, the string is stripped
\* and tokenized
ParseBegin ==
    /\ pc = "start"
    /\ path' = [origin |-> IF origin # <<>> THEN origin ELSE <<>>, elem |-> <<>>]
    /\ curr_elem' = PathElem
    /\ in_filter' = FALSE
    /\ just_filtered' = FALSE
    /\ curr_key' = None
    /\ curr_key_operator_found' = FALSE
    /\ curr_key_val' = None
    /\ xpath_elements' = findall(Strip(xpath, {"/"}))
    /\ path_elems' = <<>>
    /\ index' = 1
    /\ pc' = "loop"
    /\ UNCHANGED <<parser, xpath, origin, pass, first, Calls>>

\* CompleteElement that starts the next element without appending this one
CompleteElement_Dropped ==
    /\ InLoop
    /\ element.g1 = <<"/">>
    /\ IF curr_elem.name = <<>>
         THEN Raise
         ELSE /\ curr_elem' = PathElem
              /\ Continue
              /\ UNCHANGED <<in_filter, just_filtered, curr_key, DnLocals,
                             path_elems>>

\* lines 39-46 [124-131]: "/" completes an element
CompleteElement ==
    /\ InLoop
    /\ element.g1 = <<"/">>
    /\ IF curr_elem.name = <<>>
         THEN Raise
         ELSE /\ path_elems' = Append(path_elems, curr_elem)
              /\ curr_elem' = PathElem
              /\ Continue
              /\ UNCHANGED <<in_filter, just_filtered, curr_key, DnLocals>>

\* lines 48-50 [133-135]
EnterFilter ==
    /\ InLoop
    /\ element.g1 = <<"[">>
    /\ in_filter' = TRUE
    /\ Continue
    /\ UNCHANGED <<curr_elem, just_filtered, curr_key, DnLocals, path_elems>>

\* lines 52-54
ExitFilter ==
    /\ parser = "xpath"
    /\ InLoop
    /\ element.g1 = <<"]">>
    /\ in_filter' = FALSE
    /\ Continue
    /\ UNCHANGED <<curr_elem, just_filtered, curr_key, DnLocals, path_elems>>

\* path.py lines 137-143: "]" commits the pending key and value.  The map
\* field takes strings only: key[None] = v and key[k] = None raise TypeError.
DnExitFilter ==
    /\ parser = "dn"
    /\ InLoop
    /\ element.g1 = <<"]">>
    /\ IF curr_key = None \/ curr_key_val = None
         THEN Raise
         ELSE /\ curr_elem' = [curr_elem EXCEPT
                     !.key = Put(@, curr_key[1], curr_key_val[1])]
              /\ curr_key' = None
              /\ curr_key_operator_found' = FALSE
              /\ curr_key_val' = None
              /\ in_filter' = FALSE
              /\ Continue
              /\ UNCHANGED <<just_filtered, path_elems>>

NotBracketOrSlash ==
    /\ element.g1 # <<"/">>
    /\ element.g1 # <<"[">>
    /\ element.g1 # <<"]">>

\* lines 56-57 [145-146]: outside a filter the token's second group is the name
ElementName ==
    /\ InLoop
    /\ NotBracketOrSlash
    /\ ~in_filter
    /\ curr_elem' = [curr_elem EXCEPT !.name = element.g2]
    /\ Continue
    /\ UNCHANGED <<in_filter, just_filtered, curr_key, DnLocals, path_elems>>

\* lines 59-60 [148-149]
SkipBlank ==
    /\ InLoop
    /\ NotBracketOrSlash
    /\ in_filter
    /\ element.g1 = <<>> /\ element.g2 = <<>>
    /\ Continue
    /\ UNCHANGED <<curr_elem, in_filter, just_filtered, curr_key, DnLocals,
                   path_elems>>

\* line 63; parse_dn_to_gnmi_path has no such branch
IsAnd ==
    /\ parser = "xpath"
    /\ in_filter /\ just_filtered /\ element.g2 = <<"a", "n", "d">>

\* lines 63-65
SkipAnd ==
    /\ InLoop
    /\ NotBracketOrSlash
    /\ in_filter
    /\ ~(element.g1 = <<>> /\ element.g2 = <<>>)
    /\ IsAnd
    /\ just_filtered' = FALSE
    /\ Continue
    /\ UNCHANGED <<curr_elem, in_filter, curr_key, DnLocals, path_elems>>

InFilterTerm ==
    /\ InLoop
    /\ NotBracketOrSlash
    /\ in_filter
    /\ ~(element.g1 = <<>> /\ element.g2 = <<>>)
    /\ ~IsAnd

\* lines 67-69 [151-153]
KeyName ==
    /\ InFilterTerm
    /\ curr_key = None
    /\ curr_key' = Some(element.g2)
    /\ Continue
    /\ UNCHANGED <<curr_elem, in_filter, just_filtered, DnLocals, path_elems>>

\* OperatorOrValue without the test of line 79: a repeated key is overwritten
OperatorOrValue_Overwrite ==
    /\ parser = "xpath"
    /\ InFilterTerm
    /\ curr_key # None
    /\ IF element.g1 \in {<<">">>, <<"<">>}
         THEN Raise
       ELSE IF element.g1 = <<"=">>
         THEN Continue /\ UNCHANGED <<curr_elem, in_filter, just_filtered,
                                      curr_key, DnLocals, path_elems>>
       ELSE /\ curr_elem' = [curr_elem EXCEPT
                   !.key = Put(@, curr_key[1], Strip(element.g1, Quotes))]
            /\ curr_key' = None
            /\ just_filtered' = TRUE
            /\ Continue
            /\ UNCHANGED <<in_filter, DnLocals, path_elems>>

\* lines 71-83
OperatorOrValue ==
    /\ parser = "xpath"
    /\ InFilterTerm
    /\ curr_key # None
    /\ IF element.g1 \in {<<">">>, <<"<">>}
         THEN Raise
       ELSE IF element.g1 = <<"=">>
         THEN Continue /\ UNCHANGED <<curr_elem, in_filter, just_filtered,
                                      curr_key, DnLocals, path_elems>>
       ELSE IF curr_key[1] \in DOMAIN curr_elem.key
         THEN Raise
       ELSE /\ curr_elem' = [curr_elem EXCEPT
                   !.key = Put(@, curr_key[1], Strip(element.g1, Quotes))]
            /\ curr_key' = None
            /\ just_filtered' = TRUE
            /\ Continue
            /\ UNCHANGED <<in_filter, DnLocals, path_elems>>

\* path.py lines 155-167: the first "=" is the operator, every later token is
\* appended to the value
DnOperatorOrValue ==
    /\ parser = "dn"
    /\ InFilterTerm
    /\ curr_key # None
    /\ IF element.g1 = <<"=">> /\ ~curr_key_operator_found
         THEN /\ curr_key_operator_found' = TRUE
              /\ Continue
              /\ UNCHANGED <<curr_elem, in_filter, just_filtered, curr_key,
                             curr_key_val, path_elems>>
       ELSE IF curr_key_operator_found
         THEN /\ curr_key_val' =
                    Some((IF curr_key_val = None THEN <<>> ELSE curr_key_val[1])
                         \o element.g1 \o element.g2)
              /\ Continue
              /\ UNCHANGED <<curr_elem, in_filter, just_filtered, curr_key,
                             curr_key_operator_found, path_elems>>
       ELSE Raise

\* ParseEnd whose last test leaves out in_filter
ParseEnd_FilterIgnored ==
    /\ pc = "loop"
    /\ index > Len(xpath_elements)
    /\ LET hanging == curr_key # None /\ curr_key[1] # <<>>
           elems == Append(path_elems, curr_elem)
       IN  IF hanging
             THEN Raise
             ELSE /\ path' = [path EXCEPT !.elem = @ \o elems]
                  /\ path_elems' = elems
                  /\ pc' = "returned"
                  /\ UNCHANGED <<parser, xpath, origin, xpath_elements, index,
                                 curr_elem, in_filter, just_filtered, curr_key,
                                 DnLocals, pass, first, Calls>>

\* lines 84-95 [168-179], after the loop
ParseEnd ==
    /\ pc = "loop"
    /\ index > Len(xpath_elements)
    /\ LET \* line 85: `if curr_key`, false for None and for the empty string
           hanging == curr_key # None /\ curr_key[1] # <<>>
           \* lines 89-91: the pending element is appended and set to None
           dangling == MessageTruthy(curr_elem)
           elems == IF dangling THEN Append(path_elems, curr_elem) ELSE path_elems
           \* line 92: curr_elem is None or falsy by now
           unfinished == hanging \/ in_filter
       IN  IF hanging \/ unfinished
             THEN Raise
             ELSE /\ path' = [path EXCEPT !.elem = @ \o elems]
                  /\ path_elems' = elems
                  /\ pc' = "returned"
                  /\ UNCHANGED <<parser, xpath, origin, xpath_elements, index,
                                 curr_elem, in_filter, just_filtered, curr_key,
                                 DnLocals, pass, first, Calls>>

----------------------------------------------------------------------------
(* parse_path_to_xpath *)

\* the orders in which `for key in elem.key` may visit the keys of a map
Orders(S) ==
    {p \in [1..Cardinality(S) -> S] : \A i, j \in DOMAIN p : i # j => p[i] # p[j]}

RECURSIVE KeysText(_, _)
\* "[{}={}]".format(key, elem.key[key]) for the keys in order p
KeysText(key, p) ==
    IF p = <<>> THEN <<>>
    ELSE <<"[">> \o Head(p) \o <<"=">> \o key[Head(p)] \o <<"]">>
         \o KeysText(key, Tail(p))

RECURSIVE Renderings(_)
\* the strings parse_path_to_xpath can return for a sequence of PathElems
Renderings(elems) ==
    IF elems = <<>> THEN {<<>>}
    ELSE {<<"/">> \o Head(elems).name \o KeysText(Head(elems).key, p) \o rest :
            p \in Orders(DOMAIN Head(elems).key), rest \in Renderings(Tail(elems))}

\* The caller renders the returned Path and parses the rendering again.
RenderAndReparse ==
    /\ parser = "xpath"
    /\ pc = "returned"
    /\ pass = 1
    /\ \E x \in Renderings(path.elem) : xpath' = x
    /\ origin' = path.origin
    /\ first' = path
    /\ pass' = 2
    /\ pc' = "start"
    /\ UNCHANGED <<parser, xpath_elements, index, curr_elem, in_filter,
                   just_filtered, curr_key, DnLocals, path_elems, path,
                   Calls>>

----------------------------------------------------------------------------
(* JSON values and Python dicts *)

\* A decoded JSON value is a pair of its Python type and its content.
Str(s) == <<"str", s>>
PyInt(n) == <<"int", n>>
\* the float m / 10^e
PyFloat(m, e) == <<"float", <<m, e>>>>
Bool(b) == <<"bool", b>>
Null == <<"null", <<>>>>
\* a dict: its items in insertion order, each <<key, value>>
Obj(items) == <<"obj", items>>
List(elems) == <<"list", elems>>

TypeOf(value) == value[1]
ValueOf(value) == value[2]

\* the position of key k in the dict d, 0 when absent
DictIndex(d, k) ==
    LET at == {i \in 1..Len(d) : d[i][1] = k}
    IN  IF at = {} THEN 0 ELSE Min(at)

\* d[k] = v: a present key keeps its place
DictSet(d, k, v) ==
    IF DictIndex(d, k) = 0 THEN Append(d, <<k, v>>)
    ELSE [d EXCEPT ![DictIndex(d, k)] = <<k, v>>]

RECURSIVE DictUpdate(_, _)
\* d.update(e)
DictUpdate(d, e) ==
    IF e = <<>> THEN d
    ELSE DictUpdate(DictSet(d, Head(e)[1], Head(e)[2]), Tail(e))

\* the outcome of a call
Returned(v) == [st |-> "returned", val |-> v]
Raised == [st |-> "raised"]
Pending == [st |-> "pending"]

\* an exception of the call that gave r propagates, its result goes to Then
Try(r, Then(_)) == IF r.st = "raised" THEN Raised ELSE Then(r.val)

\* the identity of the dict that "def xpath_to_json(..., payload={})" makes
\* when the module is imported, xpath_util.py line 130
DefaultPayload == 1

\* the module is imported and no call is made: the default payload is {}
Imported ==
    /\ heap = <<Obj(<<>>)>>
    /\ made = 0

----------------------------------------------------------------------------
(* int(str) and float(str), for text over digits, sign, point and letters *)

Digits == {"0", "1", "2", "3", "4", "5", "6", "7", "8", "9"}

DigitValue(c) ==
    CASE c = "0" -> 0 [] c = "1" -> 1 [] c = "2" -> 2 [] c = "3" -> 3
      [] c = "4" -> 4 [] c = "5" -> 5 [] c = "6" -> 6 [] c = "7" -> 7
      [] c = "8" -> 8 [] c = "9" -> 9

RECURSIVE Decimal(_)
\* the number a string of digits denotes
Decimal(ds) ==
    IF ds = <<>> THEN 0
    ELSE 10 * Decimal(SubSeq(ds, 1, Len(ds) - 1)) + DigitValue(ds[Len(ds)])

Signs == {"+", "-"}

\* the text without surrounding white space and without its sign
Unsigned(s) ==
    LET body == Strip(s, WhiteSpace)
    IN  IF body # <<>> /\ Head(body) \in Signs THEN Tail(body) ELSE body

Negative(s) ==
    LET body == Strip(s, WhiteSpace) IN body # <<>> /\ Head(body) = "-"

\* int(s): <<>> for ValueError, otherwise <<n>>
ParseInt(s) ==
    LET u == Unsigned(s)
    IN  IF u # <<>> /\ \A i \in 1..Len(u) : u[i] \in Digits
          THEN <<PyInt(IF Negative(s) THEN 0 - Decimal(u) ELSE Decimal(u))>>
          ELSE <<>>

\* float(s): <<>> for ValueError, otherwise <<x>>
ParseFloat(s) ==
    LET u == Unsigned(s)
        points == {i \in 1..Len(u) : u[i] = "."}
        digits == SelectSeq(u, LAMBDA c : c \in Digits)
        e == IF points = {} THEN 0 ELSE Len(u) - Min(points)
        m == Decimal(digits)
    IN  IF /\ digits # <<>>
           /\ Cardinality(points) <= 1
           /\ \A i \in 1..Len(u) : u[i] \in Digits \cup {"."}
          THEN <<PyFloat(IF Negative(s) THEN 0 - m ELSE m, e)>>
          ELSE <<>>

\* json.dumps(b) of a bool
DumpsBool(b) == IF b THEN <<"t", "r", "u", "e">> ELSE <<"f", "a", "l", "s", "e">>


----------------------------------------------------------------------------
(* flatten_yang_json, flatten.py 55-108 *)

\* Classify that puts every boolean into the values bucket
Classify_BoolLeaf(b, key, value, convert_strings, implicit_keys) ==
    IF TypeOf(value) = "str" THEN
        LET asInt == IF convert_strings THEN ParseInt(ValueOf(value)) ELSE <<>>
            asFloat == IF convert_strings /\ asInt = <<>>
                         THEN ParseFloat(ValueOf(value)) ELSE <<>>
            parsed == IF asInt # <<>> THEN DictSet(b.values, key, asInt[1])
                      ELSE IF asFloat # <<>> THEN DictSet(b.values, key, asFloat[1])
                      ELSE b.values
            potential_key == IF convert_strings
                               THEN asInt = <<>> /\ asFloat = <<>>
                               ELSE TRUE
        IN  IF potential_key /\ implicit_keys
              THEN [b EXCEPT !.keys = DictSet(@, key, value), !.values = parsed]
              ELSE [b EXCEPT !.values = DictSet(parsed, key, value)]
    ELSE IF TypeOf(value) \in {"bool", "int", "float"}
        THEN [b EXCEPT !.values = DictSet(@, key, value)]
    ELSE IF TypeOf(value) \in {"obj", "list"}
        THEN [b EXCEPT !.to_traverse = DictSet(@, key, value)]
    ELSE [b EXCEPT !.bad = TRUE]

\* lines 70-94: the buckets after the field (key, value) has been looked at;
\* bad is set where line 94 raises
Classify(b, key, value, convert_strings, implicit_keys) ==
    IF TypeOf(value) = "str" THEN
        LET asInt == IF convert_strings THEN ParseInt(ValueOf(value)) ELSE <<>>
            asFloat == IF convert_strings /\ asInt = <<>>
                         THEN ParseFloat(ValueOf(value)) ELSE <<>>
            \* lines 74-79: values[key] = int(value) or float(value)
            parsed == IF asInt # <<>> THEN DictSet(b.values, key, asInt[1])
                      ELSE IF asFloat # <<>> THEN DictSet(b.values, key, asFloat[1])
                      ELSE b.values
            potential_key == IF convert_strings
                               THEN asInt = <<>> /\ asFloat = <<>>
                               ELSE TRUE
        IN  IF potential_key /\ implicit_keys
              THEN [b EXCEPT !.keys = DictSet(@, key, value), !.values = parsed]
              \* line 85: values[key] = value
              ELSE [b EXCEPT !.values = DictSet(parsed, key, value)]
    ELSE IF TypeOf(value) = "bool" /\ implicit_keys
        \* line 87: keys[key] = json.dumps(value)
        THEN [b EXCEPT !.keys = DictSet(@, key, Str(DumpsBool(ValueOf(value))))]
    ELSE IF TypeOf(value) \in {"bool", "int", "float"}
        THEN [b EXCEPT !.values = DictSet(@, key, value)]
    ELSE IF TypeOf(value) \in {"obj", "list"}
        THEN [b EXCEPT !.to_traverse = DictSet(@, key, value)]
    ELSE [b EXCEPT !.bad = TRUE]

RECURSIVE Buckets(_, _, _, _)
\* lines 69-94: the loop over yang_json.items()
Buckets(b, items, convert_strings, implicit_keys) ==
    IF items = <<>> \/ b.bad THEN b
    ELSE Buckets(Classify(b, Head(items)[1], Head(items)[2],
                          convert_strings, implicit_keys),
                 Tail(items), convert_strings, implicit_keys)

RECURSIVE key_string_Reversed(_)
\* key_string that puts each new part in front
key_string_Reversed(keys) ==
    IF keys = <<>> THEN <<>>
    ELSE key_string_Reversed(Tail(keys))
         \o <<"[">> \o Head(keys)[1] \o <<"=">> \o ValueOf(Head(keys)[2]) \o <<"]">>

RECURSIVE key_string(_)
\* lines 95-97
key_string(keys) ==
    IF keys = <<>> THEN <<>>
    ELSE <<"[">> \o Head(keys)[1] \o <<"=">> \o ValueOf(Head(keys)[2]) \o <<"]">>
         \o key_string(Tail(keys))

\* "{prefix}{keys}/{elem}"
keyed_elem(prefix, keys, elem) == prefix \o key_string(keys) \o <<"/">> \o elem

RECURSIVE Leaves(_, _, _, _)
\* lines 103-107: flattened[prefix + keys + "/" + key] = value
Leaves(flattened, prefix, keys, values) ==
    IF values = <<>> THEN flattened
    ELSE Leaves(DictSet(flattened, keyed_elem(prefix, keys, Head(values)[1]),
                        Head(values)[2]),
                prefix, keys, Tail(values))

RECURSIVE flatten_yang_json(_, _, _, _)
RECURSIVE FlattenElems(_, _, _)
RECURSIVE FlattenTraverse(_, _, _, _, _)

\* lines 65-67: the list elements are flattened with the default flags
FlattenElems(flattened, prefix, elems) ==
    IF elems = <<>> THEN Returned(flattened)
    ELSE Try(flatten_yang_json(prefix, Head(elems), TRUE, TRUE),
             LAMBDA sub : FlattenElems(DictUpdate(flattened, sub), prefix,
                                       Tail(elems)))

\* lines 98-102: the sub-structures are flattened with convert_strings and
\* the default implicit_keys
FlattenTraverse(flattened, prefix, keys, to_traverse, convert_strings) ==
    IF to_traverse = <<>> THEN Returned(flattened)
    ELSE Try(flatten_yang_json(keyed_elem(prefix, keys, Head(to_traverse)[1]),
                               Head(to_traverse)[2], convert_strings, TRUE),
             LAMBDA sub : FlattenTraverse(DictUpdate(flattened, sub), prefix, keys,
                                          Tail(to_traverse), convert_strings))

flatten_yang_json(prefix, yang_json, convert_strings, implicit_keys) ==
    IF TypeOf(yang_json) = "list" THEN FlattenElems(<<>>, prefix, ValueOf(yang_json))
    ELSE IF TypeOf(yang_json) = "obj" THEN
        LET b == Buckets([keys |-> <<>>, values |-> <<>>, to_traverse |-> <<>>,
                          bad |-> FALSE],
                         ValueOf(yang_json), convert_strings, implicit_keys)
        IN  IF b.bad THEN Raised
            ELSE Try(FlattenTraverse(<<>>, prefix, b.keys, b.to_traverse,
                                     convert_strings),
                     LAMBDA flattened :
                        Returned(Leaves(flattened, prefix, b.keys, b.values)))
    \* line 108: anything else falls through both tests
    ELSE Returned(<<>>)

----------------------------------------------------------------------------
(* flatten and __flatten_notification, flatten.py 32-52 and 122-204 *)

\* lines 155-166
realize_xpath(_prefix, _suffix) ==
    IF _prefix # <<>> /\ _suffix # <<>>
      THEN IF EndsWith(_prefix, <<"/">>) \/ StartsWith(_suffix, <<"/">>)
             THEN _prefix \o _suffix
             ELSE _prefix \o <<"/">> \o _suffix
    ELSE IF _prefix # <<>> THEN _prefix
    ELSE _suffix

\* "/{}:{}".format(origin, xpath.strip("/"))
WithModule(org, text) == <<"/">> \o org \o <<":">> \o Strip(text, {"/"})

\* lines 172-175 and 196-199: the path of an update or delete whose Path has
\* the origin _origin and was rendered as text; <<>> where "Double origin?"
\* is raised
Located(org, xpath_prefix, _origin, text, origin_as_module) ==
    IF org # <<>> /\ _origin # <<>> THEN <<>>
    ELSE <<realize_xpath(xpath_prefix,
                         IF org = <<>> /\ origin_as_module
                           THEN WithModule(_origin, text) ELSE text)>>

RECURSIVE UpdateLoop(_, _, _, _, _, _, _)
\* lines 168-191: the updates from the i-th on; texts[i] is the rendering
\* parse_path_to_xpath made of the i-th path
UpdateLoop(flattened, update, texts, i, org, xpath_prefix, flags) ==
    IF i > Len(update) THEN Returned(flattened)
    ELSE LET at == Located(org, xpath_prefix, update[i].path.origin, texts[i],
                           flags.origin_as_module)
             val == update[i].val
             \* lines 179-190: the update's own entries, or line 184 raises
             entries ==
                IF val.name \in {"json_val", "json_ietf_val"}
                  THEN IF ~val.decodes THEN Raised
                       ELSE flatten_yang_json(at[1], val.value,
                                              flags.convert_strings, TRUE)
                  ELSE Returned(<<<<at[1], val.value>>>>)
         IN  IF at = <<>> THEN Raised
             ELSE Try(entries,
                      LAMBDA sub : UpdateLoop(DictUpdate(flattened, sub), update,
                                              texts, i + 1, org, xpath_prefix,
                                              flags))

RECURSIVE DeleteLoop(_, _, _, _, _, _, _)
\* lines 193-203: the deletes from the i-th on
DeleteLoop(flattened, delete, texts, i, org, xpath_prefix, flags) ==
    IF i > Len(delete) THEN Returned(flattened)
    ELSE LET at == Located(org, xpath_prefix, delete[i].origin, texts[i],
                           flags.origin_as_module)
         IN  IF at = <<>> THEN Raised
             \* line 201: "Deleted element in update messages!"
             ELSE IF DictIndex(flattened, at[1]) # 0 THEN Raised
             ELSE DeleteLoop(DictSet(flattened, at[1], Null), delete, texts,
                             i + 1, org, xpath_prefix, flags)

\* lines 142-204; r holds the renderings of the prefix, of the update paths
\* and of the deleted paths
flatten_notification(notification_message, flags, r) ==
    LET org == notification_message.prefix.origin
        xpath_prefix == IF flags.origin_as_module /\ org # <<>>
                          THEN WithModule(org, r.prefix) ELSE r.prefix
    IN  Try(UpdateLoop(<<>>, notification_message.update, r.update, 1, org,
                       xpath_prefix, flags),
                LAMBDA flattened_response :
                    IF flags.ignore_delete THEN Returned(flattened_response)
                    ELSE DeleteLoop(flattened_response,
                                    notification_message.delete, r.delete, 1,
                                    org, xpath_prefix, flags))

RECURSIVE RenderingSeqs(_)
\* what parse_path_to_xpath can make of each Path of a sequence
RenderingSeqs(paths) ==
    IF paths = <<>> THEN {<<>>}
    ELSE {<<x>> \o rest : x \in Renderings(Head(paths).elem),
                          rest \in RenderingSeqs(Tail(paths))}

\* the renderings of the paths of a notification
NotificationRenderings(n) ==
    [prefix : Renderings(n.prefix.elem),
     update : RenderingSeqs([i \in 1..Len(n.update) |-> n.update[i].path]),
     delete : RenderingSeqs(n.delete)]

RECURSIVE GetResponseLoop(_, _, _, _)
\* lines 125-131 (_flatten_get_response); rs[i] renders the i-th notification
GetResponseLoop(flattened_response, notification, flags, rs) ==
    IF notification = <<>> THEN Returned(flattened_response)
    ELSE Try(flatten_notification(Head(notification), flags, Head(rs)),
             LAMBDA sub : GetResponseLoop(DictUpdate(flattened_response, sub),
                                          Tail(notification), flags, Tail(rs)))

\* lines 32-52: flatten(message, convert_strings, ignore_delete,
\* origin_as_module); message.notification is the notification list of a
\* GetResponse and the one notification (update) of a SubscribeResponse
flatten(message, flags, rs) ==
    IF message.class \in {"GetResponse", "SubscribeResponse"}
      THEN GetResponseLoop(<<>>, message.notification, flags, rs)
      \* line 51: "Flatten not yet supported for message class!"
      ELSE Raised

RECURSIVE MessageRenderings(_)
\* the renderings of the paths of each notification of a sequence
MessageRenderings(notification) ==
    IF notification = <<>> THEN {<<>>}
    ELSE {<<r>> \o rest : r \in NotificationRenderings(Head(notification)),
                          rest \in MessageRenderings(Tail(notification))}

----------------------------------------------------------------------------
(* Calls of the flatten functions *)

\* the variables of the parsers
ParserVars ==
    <<parser, xpath, origin, xpath_elements, index, curr_elem, in_filter,
      just_filtered, curr_key, curr_key_operator_found, curr_key_val,
      path_elems, path, pc, pass, first>>

\* no parser runs
ParserIdle ==
    /\ parser = "none"
    /\ xpath = <<>>
    /\ origin = <<>>
    /\ xpath_elements = <<>>
    /\ index = 1
    /\ curr_elem = PathElem
    /\ in_filter = FALSE
    /\ just_filtered = FALSE
    /\ curr_key = None
    /\ curr_key_operator_found = FALSE
    /\ curr_key_val = None
    /\ path_elems = <<>>
    /\ path = [origin |-> <<>>, elem |-> <<>>]
    /\ pc = "idle"
    /\ pass = 1
    /\ first = [origin |-> <<>>, elem |-> <<>>]

\* most scalar fields in one object
MaxFields == 3

\* the names of the scalar fields, in the order in which an object holds them
FieldName == <<<<"a">>, <<"b">>, <<"c">>, <<"d">>, <<"e">>>>

\* text that is no number, an int, a float; a number, a boolean, null
Scalars ==
    {Str(<<"x">>), Str(<<"1", "0">>), Str(<<"1", ".", "5">>), PyInt(1),
     Bool(TRUE), Null}

RECURSIVE FlatItems(_)
\* the items of the objects with n scalar fields
FlatItems(n) ==
    IF n = 0 THEN {<<>>}
    ELSE {Append(q, <<FieldName[n], v>>) : q \in FlatItems(n - 1), v \in Scalars}

Flat == {Obj(q) : q \in UNION {FlatItems(n) : n \in 0..MaxFields}}

\* objects with one field at most, for the lists of two
Small == {Obj(q) : q \in FlatItems(0) \cup FlatItems(1)}

\* what the structural field o holds: an object or a list
Structures ==
    Flat \cup {List(<<x>>) : x \in Flat \cup Scalars}
         \cup {List(<<x, y>>) : x \in Small, y \in Small}

\* an object with a structural field o after at most one scalar field
Nested ==
    {Obj(Append(q, <<<<"o">>, w>>)) :
        q \in FlatItems(0) \cup FlatItems(1), w \in Structures}

JsonInputs ==
    Flat \cup Nested \cup Scalars \cup {List(<<x>>) : x \in Flat \cup Scalars}

Prefixes == {<<>>, <<"/", "p">>}

\* most updates, and most deletes, in one notification
MaxUpdates == 1

NamedElem(n) == [name |-> n, key |-> EmptyMap]

\* /p, alone and with an origin, and the empty Path
PrefixPaths ==
    {[origin |-> <<>>, elem |-> <<>>],
     [origin |-> <<>>, elem |-> <<NamedElem(<<"p">>)>>],
     [origin |-> <<"o", "c">>, elem |-> <<NamedElem(<<"p">>)>>]}

\* /a, /a/b, /a[k=v][j=w], and /a with an origin
NotificationPaths ==
    {[origin |-> <<>>, elem |-> <<NamedElem(<<"a">>)>>],
     [origin |-> <<>>, elem |-> <<NamedElem(<<"a">>), NamedElem(<<"b">>)>>],
     [origin |-> <<>>,
      elem |-> <<[name |-> <<"a">>,
                  key |-> Put(Put(EmptyMap, <<"k">>, <<"v">>), <<"j">>, <<"w">>)]>>],
     [origin |-> <<"o", "c">>, elem |-> <<NamedElem(<<"a">>)>>]}

\* a TypedValue: the name of the field that is set, its (decoded) content and
\* whether json.loads can decode it
TypedValues ==
    {[name |-> "json_val", value |-> Obj(<<<<<<"b">>, PyInt(1)>>>>), decodes |-> TRUE],
     [name |-> "json_ietf_val", value |-> PyInt(1), decodes |-> TRUE],
     [name |-> "json_val", value |-> Null, decodes |-> FALSE],
     [name |-> "int_val", value |-> PyInt(1), decodes |-> TRUE]}

Updates == [path : NotificationPaths, val : TypedValues]

Notifications ==
    [prefix : PrefixPaths, update : SeqsUpTo(Updates, MaxUpdates),
     delete : SeqsUpTo(NotificationPaths, MaxUpdates)]

\* a SubscribeResponse holds one notification, a GetResponse here one at most
Messages ==
    {[class |-> "SubscribeResponse", notification |-> <<n>>] : n \in Notifications}
    \cup {[class |-> "GetResponse", notification |-> <<n>>] : n \in Notifications}
    \cup {[class |-> c, notification |-> <<>>] : c \in {"GetResponse", "SetResponse"}}

FlattenFlags ==
    [convert_strings : BOOLEAN, ignore_delete : BOOLEAN, origin_as_module : BOOLEAN]

FlattenInit ==
    /\ ParserIdle
    /\ Imported
    /\ \/ /\ call = "flatten_yang_json"
          /\ args \in [prefix : Prefixes, yang_json : JsonInputs,
                       convert_strings : BOOLEAN, implicit_keys : BOOLEAN]
       \/ /\ call = "flatten"
          /\ args \in [message : Messages, flags : FlattenFlags]
    /\ ret = Pending

\* a caller runs flatten_yang_json(prefix, yang_json, convert_strings, implicit_keys)
FlattenYangJson ==
    /\ call = "flatten_yang_json"
    /\ ret = Pending
    /\ ret' = flatten_yang_json(args.prefix, args.yang_json,
                                args.convert_strings, args.implicit_keys)
    /\ UNCHANGED <<call, args, ParserVars, heap, made>>

\* a caller runs flatten(message, convert_strings, ignore_delete, origin_as_module)
Flatten ==
    /\ call = "flatten"
    /\ ret = Pending
    /\ \E rs \in MessageRenderings(args.message.notification) :
            ret' = flatten(args.message, args.flags, rs)
    /\ UNCHANGED <<call, args, ParserVars, heap, made>>

FlattenNext ==
    \/ FlattenYangJson
    \/ Flatten

SpecFlatten == FlattenInit /\ [][FlattenNext]_vars

----------------------------------------------------------------------------
(* The inputs *)

\* longest string of atoms, number of path elements, number of plain names
MaxAtoms == 3

MaxElems == 2

MaxNames == 3

Atoms ==
    { <<"a">>, <<"k">>, <<"a", "n", "d">>, <<"/">>, <<"[">>, <<"]">>, <<"=">>,
      <<" ">>, <<">">>, <<"!", "=">>, <<"\"", "v", "\"">> }

\* every string of at most MaxAtoms atoms
AtomInputs == {Concat(q) : q \in SeqsUpTo(Atoms, MaxAtoms)}

PlainNames == { <<"a">>, <<"a", "b">>, <<"a", "n", "d">> }

RECURSIVE Join(_)
\* "/".join(names)
Join(names) ==
    IF Len(names) = 1 THEN Head(names)
    ELSE Head(names) \o <<"/">> \o Join(Tail(names))

Leads == {<<>>, <<"/">>}

\* a/b/c and /a/b/c
PlainInputs ==
    {lead \o Join(q) : lead \in Leads, q \in SeqsUpTo(PlainNames, MaxNames) \ {<<>>}}

Q == "\""

\* [k="v"] and so on: a key, the value as written (with its quotes)
Pred(k, v) == <<"[">> \o k \o <<"=">> \o v \o <<"]">>

\* [k1="v1" and k2="v2"]
PredAnd(k1, v1, k2, v2) ==
    <<"[">> \o k1 \o <<"=">> \o v1 \o <<" ", "a", "n", "d", " ">>
            \o k2 \o <<"=">> \o v2 \o <<"]">>

kK == <<"k">>

kJ == <<"j">>

kAnd == <<"a", "n", "d">>

vV == <<Q, "v", Q>>

vW == <<Q, "w", Q>>

vSlash == <<Q, "w", "/", "w", Q>>

vSingle == <<"'", "v", "'">>

vNested == <<Q, "'", "v", "'", Q>>

\* the predicate parts of a well-formed element
GoodPreds ==
    { <<>>,
      Pred(kK, vV), Pred(kK, vSlash), Pred(kK, vSingle), Pred(kK, vNested),
      Pred(kAnd, vW),
      PredAnd(kK, vV, kJ, vW), Pred(kK, vV) \o Pred(kJ, vW),
      PredAnd(kK, vV, kK, vW), Pred(kK, vV) \o Pred(kK, vW) }

ElemNames == { <<"a">>, <<"b">> }

GoodElems == {n \o p : n \in ElemNames, p \in GoodPreds}

\* paths of at most MaxElems well-formed elements
GoodInputs ==
    {lead \o Join(q) : lead \in Leads, q \in SeqsUpTo(GoodElems, MaxElems) \ {<<>>}}

\* predicate parts the grammar of section 4.1 rejects
BadPreds ==
    { <<"[", "]">>, <<"[", " ", "]">>,
      <<"[", "k">>, <<"[", "k", "=">>, <<"[", "k", "=">> \o vV,
      <<"[", "k", " ", ">", " ">> \o vV \o <<"]">>,
      <<"[", "k", ">", " ">> \o vV \o <<"]">>,
      <<"[", "k", "<">> \o vV \o <<"]">>,
      <<"[", "k", "!", "=">> \o vV \o <<"]">>,
      <<"[", "k", " ", "!", "=", " ">> \o vV \o <<"]">> }

\* one rejected or nameless segment, alone or between plain segments
BadInputs ==
    {pre \o n \o p \o post :
        pre \in {<<>>, <<"a", "/">>}, n \in {<<>>, <<"a">>},
        p \in BadPreds \cup {<<>>, Pred(kK, vV)}, post \in {<<>>, <<"/", "b">>}}

\* /interfaces/interface[name="Hu0/0/0"]/state/counters
ScenarioA ==
    <<"/", "i", "n", "t", "e", "r", "f", "a", "c", "e", "s",
      "/", "i", "n", "t", "e", "r", "f", "a", "c", "e",
      "[", "n", "a", "m", "e", "=", Q, "H", "u", "0", "/", "0", "/", "0", Q, "]",
      "/", "s", "t", "a", "t", "e", "/", "c", "o", "u", "n", "t", "e", "r", "s">>

\* values of a DN key: plain, with a second '=', and the interface name eth1/1
DnValues == {<<"v">>, <<"v", "=", "w">>, <<"e", "t", "h", "1", "/", "1">>}

\* a[k=value], alone and before a plain segment
DnInputs ==
    {<<"a", "[", "k", "=">> \o v \o <<"]">> \o post :
        v \in DnValues, post \in {<<>>, <<"/", "b">>}}

Inputs ==
    AtomInputs \cup PlainInputs \cup GoodInputs \cup BadInputs \cup {ScenarioA}
        \cup DnInputs

Origins == {<<>>, <<"o", "c">>}

----------------------------------------------------------------------------
(* The specification *)

Init ==
    /\ parser \in {"xpath", "dn"}
    /\ xpath \in Inputs
    /\ origin \in Origins
    /\ xpath_elements = <<>>
    /\ index = 1
    /\ curr_elem = PathElem
    /\ in_filter = FALSE
    /\ just_filtered = FALSE
    /\ curr_key = None
    /\ curr_key_operator_found = FALSE
    /\ curr_key_val = None
    /\ path_elems = <<>>
    /\ path = [origin |-> <<>>, elem |-> <<>>]
    /\ pc = "start"
    /\ pass = 1
    /\ first = [origin |-> <<>>, elem |-> <<>>]
    /\ call = "parse"
    /\ args = <<>>
    /\ ret = <<>>
    /\ Imported

Next ==
    \/ ParseBegin
    \/ CompleteElement
    \/ EnterFilter
    \/ ExitFilter
    \/ DnExitFilter
    \/ ElementName
    \/ SkipBlank
    \/ SkipAnd
    \/ KeyName
    \/ OperatorOrValue
    \/ DnOperatorOrValue
    \/ ParseEnd
    \/ RenderAndReparse

Spec == Init /\ [][Next]_vars

----------------------------------------------------------------------------
(* Properties of parse_xpath_to_gnmi_path *)

\* the call has returned or raised
Done == pc \in {"returned", "raised"}

\* a call of parse_xpath_to_gnmi_path has returned or raised
XDone == parser = "xpath" /\ Done

\* a PathElem with a name and no key
Plain(n) == [name |-> n, key |-> EmptyMap]

NameSeqs == SeqsUpTo(PlainNames, MaxNames) \ {<<>>}

\* C1: a path of n >= 1 plain names separated by single "/", with or without
\* a leading "/", and a non-empty origin, returns a Path that has the origin
\* and exactly the n names in input order, each with an empty key map.
C1_PlainPath ==
    (XDone /\ origin # <<>>) =>
        \A lead \in Leads, q \in NameSeqs :
            xpath = lead \o Join(q) =>
                /\ pc = "returned"
                /\ path.origin = origin
                /\ Len(path.elem) = Len(q)
                /\ \A i \in 1..Len(q) : path.elem[i] = Plain(q[i])

C1_Witness ==
    /\ parser = "xpath"
    /\ pc = "returned"
    /\ xpath = <<"/", "a", "/", "a", "b", "/", "a", "n", "d">>
    /\ origin = <<"o", "c">>
    /\ path.origin = <<"o", "c">>
    /\ Len(path.elem) = 3

\* the text between the quotes of a quoted value
Unquoted(v) == SubSeq(v, 2, Len(v) - 1)

QuotedValues == {vV, vW, vSlash, vSingle, vNested}

\* C2: a "/" inside a quoted predicate value does not end the element
\* (Scenario A yields interfaces, interface with name -> Hu0/0/0, state,
\* counters), and every quoted key value is stored whole, without its quotes,
\* as one key of the element whose name precedes the bracket.
C2_QuotedValueWhole ==
    XDone =>
        /\ xpath = ScenarioA =>
              /\ pc = "returned"
              /\ path.elem =
                   << Plain(<<"i", "n", "t", "e", "r", "f", "a", "c", "e", "s">>),
                      [name |-> <<"i", "n", "t", "e", "r", "f", "a", "c", "e">>,
                       key |-> (<<"n", "a", "m", "e">> :>
                                   <<"H", "u", "0", "/", "0", "/", "0">>)],
                      Plain(<<"s", "t", "a", "t", "e">>),
                      Plain(<<"c", "o", "u", "n", "t", "e", "r", "s">>) >>
        /\ \A n \in ElemNames, v \in QuotedValues :
              xpath = n \o Pred(kK, v) =>
                  /\ pc = "returned"
                  /\ path.elem = <<[name |-> n, key |-> (kK :> Unquoted(v))]>>

\* C3: every returned Path has at least one element and every element has a
\* non-empty name; an input that is empty after stripping "/" and an input
\* that is only a predicate raise.
C3_ElementsNamed ==
    pc = "returned" =>
        /\ Len(path.elem) >= 1
        /\ \A i \in 1..Len(path.elem) : path.elem[i].name # <<>>

\* a//b and a/[k="v"]/b
NamelessSegmentInputs ==
    {<<"a", "/">> \o p \o <<"/", "b">> : p \in {<<>>, Pred(kK, vV)}}

\* C4: the parser raises when an element boundary is reached while the
\* current element has no name: an empty segment inside the path (a//b) or a
\* segment that is only a predicate (a/[k="v"]/b).
C4_NamelessSegmentRaises ==
    (XDone /\ xpath \in NamelessSegmentInputs) => pc = "raised"

\* a[] and a[ ]
EmptyPredicateInputs == {<<"a", "[", "]">>, <<"a", "[", " ", "]">>}

\* C5: the parser raises when a predicate closes with "]" while no key name
\* was captured inside it (a[] or a[ ]).
C5_EmptyPredicateRaises ==
    (XDone /\ xpath \in EmptyPredicateInputs) => pc = "raised"

\* a[k > "v"], a[k> "v"], a[k<"v"], a[k!="v"], a[k != "v"]
OtherOperatorInputs ==
    {<<"a">> \o <<"[", "k">> \o op \o vV \o <<"]">> :
        op \in {<<" ", ">", " ">>, <<">", " ">>, <<"<">>, <<"!", "=">>,
                <<" ", "!", "=", " ">>}}

\* C6: the parser raises for every predicate whose key name is followed by an
\* operator other than "=" (>, <, != with or without spaces); no Path is
\* returned in which such a predicate was stored as a key.
C6_OtherOperatorRaises ==
    (XDone /\ xpath \in OtherOperatorInputs) => pc = "raised"

\* predicate parts that name the key k twice
DupPreds == {PredAnd(kK, vV, kK, vW), Pred(kK, vV) \o Pred(kK, vW)}

DupElems == {n \o p : n \in ElemNames, p \in DupPreds}

GoodElemSeqs == SeqsUpTo(GoodElems, MaxElems) \ {<<>>}

\* well-formed paths with an element that names a key twice
DupInputs ==
    {lead \o Join(q) : lead \in Leads,
        q \in {r \in GoodElemSeqs : \E i \in 1..Len(r) : r[i] \in DupElems}}

\* well-formed paths in which no element names a key twice
NoDupInputs ==
    {lead \o Join(q) : lead \in Leads,
        q \in {r \in GoodElemSeqs : \A i \in 1..Len(r) : r[i] \notin DupElems}}

OpenAtEnd(toks) ==
    \E i \in 1..Len(toks) :
        /\ toks[i].g1 = <<"[">>
        /\ \A j \in (i + 1)..Len(toks) : toks[j].g1 # <<"]">>

\* C8: the parser raises when the input ends inside a predicate that has no
\* closing "]" or with a key name that has not received its value
\* (a[k, a[k=, a[k="v").
C8_UnterminatedRaises ==
    XDone =>
        /\ OpenAtEnd(xpath_elements) => pc = "raised"
        /\ (curr_key # None /\ curr_key[1] # <<>>) => pc = "raised"

C8_Witness ==
    /\ parser = "xpath"
    /\ pc = "raised"
    /\ xpath = <<"a", "[", "k", "=">> \o vV
    /\ index > Len(xpath_elements)
    /\ curr_key = None
    /\ curr_elem.key = (kK :> <<"v">>)

\* C9: round trip.  Rendering a returned Path (one whose elements are named)
\* with parse_path_to_xpath and parsing the rendering again yields the same
\* element names in the same order and equal key maps.
C9_RoundTrip ==
    (XDone /\ pass = 2 /\ \A i \in 1..Len(first.elem) : first.elem[i].name # <<>>) =>
        /\ pc = "returned"
        /\ Len(path.elem) = Len(first.elem)
        /\ \A i \in 1..Len(first.elem) :
              /\ path.elem[i].name = first.elem[i].name
              /\ path.elem[i].key = first.elem[i].key

\* C10: [k1="v1" and k2="v2"] yields the same element as [k1="v1"][k2="v2"],
\* and `and` is swallowed only right after a completed pair inside the same
\* bracket: a key named `and` that opens a bracket of a later element is kept.
C10_AndJunction ==
    XDone =>
        /\ \A n \in ElemNames :
              xpath \in {n \o PredAnd(kK, vV, kJ, vW), n \o Pred(kK, vV) \o Pred(kJ, vW)} =>
                  /\ pc = "returned"
                  /\ path.elem = <<[name |-> n, key |-> (kK :> <<"v">> @@ kJ :> <<"w">>)]>>
        /\ xpath = <<"a">> \o Pred(kK, vV) \o <<"/", "b">> \o Pred(kAnd, vW) =>
              /\ pc = "returned"
              /\ path.elem = <<[name |-> <<"a">>, key |-> (kK :> <<"v">>)],
                               [name |-> <<"b">>, key |-> (kAnd :> <<"w">>)]>>

\* C11: in the DN dialect every token between '=' and the closing ']' becomes
\* part of the value of the one key, and the pair is committed to the element
\* named before the bracket, also when the value contains '/': a[k=eth1/1]
\* is one element a with key k -> eth1/1 and no further element.
C11_DnValueWhole ==
    \A v \in DnValues :
        (parser = "dn" /\ Done /\ pass = 1
            /\ xpath = <<"a", "[", "k", "=">> \o v \o <<"]">>)
        => /\ pc = "returned"
           /\ path.elem = <<[name |-> <<"a">>, key |-> Put(EmptyMap, <<"k">>, v)]>>

----------------------------------------------------------------------------
(* Claims about flatten_yang_json, checked under SpecFlatten *)

\* flatten_yang_json has returned a mapping for an object
FlatDone ==
    /\ call = "flatten_yang_json"
    /\ ret.st = "returned"
    /\ TypeOf(args.yang_json) = "obj"

\* the items of the object argument
TopItems == ValueOf(args.yang_json)

\* the path p below the prefix argument, split at '/': the first part is the
\* bracket suffix of the object argument, the last one the field of the leaf
Below(p) == Split(SubSeq(p, Len(args.prefix) + 1, Len(p)), "/")

\* the paths of the returned mapping
FlatPaths == {ret.val[i][1] : i \in 1..Len(ret.val)}

\* the mapping has the leaf prefix + brackets + '/' + field -> value
TopLeaf(field, value) ==
    \E i \in 1..Len(ret.val) :
        /\ StartsWith(ret.val[i][1], args.prefix)
        /\ Len(Below(ret.val[i][1])) = 2
        /\ Below(ret.val[i][1])[2] = field
        /\ ret.val[i][2] = value

\* some path has a bracket part [field=...] in the suffix of the object argument
TopBracket(field) ==
    \E p \in FlatPaths : Contains(Below(p)[1], <<"[">> \o field \o <<"=">>)

IsNumber(value) == TypeOf(value) \in {"int", "float"}

\* C12 (as stated): a field whose value is a boolean or a number is emitted
\* as the leaf prefix + predicateSuffix + '/' + field -> value and never
\* contributes a [field=value] part.
C12_ScalarLeaf ==
    FlatDone =>
        \A i \in 1..Len(TopItems) :
            (IsNumber(TopItems[i][2]) \/ TypeOf(TopItems[i][2]) = "bool")
            => /\ TopLeaf(TopItems[i][1], TopItems[i][2])
               /\ ~TopBracket(TopItems[i][1])

\* the object or single list element that the field o of the argument holds
SubItems ==
    LET os == {i \in 1..Len(TopItems) : TopItems[i][1] = <<"o">>}
        o == TopItems[CHOOSE i \in os : TRUE][2]
    IN  IF os = {} THEN <<>>
        ELSE IF TypeOf(o) = "obj" THEN ValueOf(o)
        ELSE IF TypeOf(o) = "list" /\ Len(ValueOf(o)) = 1
                /\ TypeOf(ValueOf(o)[1]) = "obj" THEN ValueOf(ValueOf(o)[1])
        ELSE <<>>

\* the leaf prefix + brackets + '/o' + brackets + '/' + field -> value
SubLeaf(field, value) ==
    \E i \in 1..Len(ret.val) :
        /\ Len(Below(ret.val[i][1])) = 3
        /\ Below(ret.val[i][1])[3] = field
        /\ ret.val[i][2] = value

\* every path has the part [field=text] in the suffix of the object argument
TopBracketAll(field, text) ==
    \A p \in FlatPaths :
        Contains(Below(p)[1], <<"[">> \o field \o <<"=">> \o text \o <<"]">>)

\* every path below o has the part [field=text] in the suffix of o
SubBracketAll(field, text) ==
    \A p \in FlatPaths :
        Len(Below(p)) = 3
        => Contains(Below(p)[2], <<"[">> \o field \o <<"=">> \o text \o <<"]">>)

\* C12 (amended): a field whose value is a number is emitted as the leaf
\* prefix + predicateSuffix + '/' + field -> value and contributes no bracket
\* part.  A boolean is treated so only in the object handed to a call with
\* implicit_keys false; with implicit_keys true, and in every sub-object and
\* list element, a boolean contributes [field=true] or [field=false] to the
\* predicate suffix and is emitted as no leaf.
C12_NumberLeafBooleanKey ==
    FlatDone =>
        /\ \A i \in 1..Len(TopItems) :
            LET field == TopItems[i][1]
                value == TopItems[i][2]
            IN  /\ (IsNumber(value)
                        \/ (TypeOf(value) = "bool" /\ ~args.implicit_keys))
                   => TopLeaf(field, value) /\ ~TopBracket(field)
                /\ (TypeOf(value) = "bool" /\ args.implicit_keys)
                   => /\ ~TopLeaf(field, value)
                      /\ TopBracketAll(field, DumpsBool(ValueOf(value)))
        /\ \A i \in 1..Len(SubItems) :
            LET field == SubItems[i][1]
                value == SubItems[i][2]
            IN  /\ IsNumber(value) => SubLeaf(field, value)
                /\ TypeOf(value) = "bool"
                   => /\ ~SubLeaf(field, value)
                      /\ SubBracketAll(field, DumpsBool(ValueOf(value)))

\* {"a": true, "b": 1} with implicit_keys true gives [a=true]/b -> 1 alone
C12_Witness ==
    /\ FlatDone
    /\ args.implicit_keys
    /\ TopItems = <<<<<<"a">>, Bool(TRUE)>>, <<<<"b">>, PyInt(1)>>>>
    /\ ret.val = <<<<args.prefix \o <<"[", "a", "=", "t", "r", "u", "e", "]", "/", "b">>,
                     PyInt(1)>>>>

\* the number that int(), otherwise float(), makes of the text s; <<>> if none
Parsed(s) == IF ParseInt(s) # <<>> THEN ParseInt(s) ELSE ParseFloat(s)

\* C13: with convert_strings true, a string that parses as an integer
\* (otherwise as a float) is emitted as a leaf whose value is the parsed
\* number, not the string; only strings that parse as neither go to the key
\* bucket.
C13_NumericStringConverted ==
    (FlatDone /\ args.convert_strings) =>
        \A i \in 1..Len(TopItems) :
            LET field == TopItems[i][1]
                value == TopItems[i][2]
            IN  TypeOf(value) = "str" =>
                    /\ Parsed(ValueOf(value)) # <<>>
                       => TopLeaf(field, Parsed(ValueOf(value))[1])
                    /\ TopBracket(field) => Parsed(ValueOf(value)) = <<>>

\* some leaf of the mapping is the field, n parts below the prefix
LeafAt(n, field) ==
    \E p \in FlatPaths : Len(Below(p)) = n /\ Below(p)[n] = field

\* C14: with convert_strings false, every string field at every depth (of
\* the top-level object, of sub-objects, of objects in arrays) goes into the
\* key bucket, and no string is converted anywhere.
C14_StringsAreKeys ==
    (FlatDone /\ ~args.convert_strings /\ args.implicit_keys) =>
        /\ \A i \in 1..Len(TopItems) :
            TypeOf(TopItems[i][2]) = "str"
            => /\ TopBracketAll(TopItems[i][1], ValueOf(TopItems[i][2]))
               /\ ~LeafAt(2, TopItems[i][1])
        /\ \A i \in 1..Len(SubItems) :
            TypeOf(SubItems[i][2]) = "str"
            => /\ SubBracketAll(SubItems[i][1], ValueOf(SubItems[i][2]))
               /\ ~LeafAt(3, SubItems[i][1])
        /\ \A i \in 1..Len(ret.val) : ~IsNumber(ret.val[i][2]) \/
            \E j \in 1..Len(TopItems \o SubItems) :
                (TopItems \o SubItems)[j][2] = ret.val[i][2]

\* the buckets of the object with the given items
BucketsOf(items, convert_strings, implicit_keys) ==
    Buckets([keys |-> <<>>, values |-> <<>>, to_traverse |-> <<>>, bad |-> FALSE],
            items, convert_strings, implicit_keys)

\* [k1=v1][k2=v2]...: the key-bucket fields in the order in which the object
\* holds them, each once
BracketSuffix(items, keys) ==
    LET held == SelectSeq(items, LAMBDA it : DictIndex(keys, it[1]) # 0)
    IN  Concat([i \in 1..Len(held) |->
                  <<"[">> \o held[i][1] \o <<"=">>
                    \o ValueOf(keys[DictIndex(keys, held[i][1])][2]) \o <<"]">>])

\* the paths of the object with buckets b flattened at pre are right
ShapeOK(items, b, pre) ==
    LET base == pre \o BracketSuffix(items, b.keys) \o <<"/">>
        mine == {p \in FlatPaths : StartsWith(p, pre)
                    /\ (Len(p) = Len(pre) \/ p[Len(pre) + 1] \in {"[", "/"})}
    IN  /\ \A i \in 1..Len(b.values) :
                \E j \in 1..Len(ret.val) :
                    ret.val[j] = <<base \o b.values[i][1], b.values[i][2]>>
        /\ \A p \in mine :
                /\ StartsWith(p, base)
                /\ \/ \E i \in 1..Len(b.values) : p = base \o b.values[i][1]
                   \/ \E i \in 1..Len(b.to_traverse) :
                        /\ StartsWith(p, base \o b.to_traverse[i][1])
                        /\ p[Len(base \o b.to_traverse[i][1]) + 1] \in {"[", "/"}
        /\ (b.values = <<>> /\ b.to_traverse = <<>>) => mine = {}

\* the sub-object of the field o is flattened with the caller's
\* convert_strings, a list element with the default
SubConvert ==
    \A i \in 1..Len(TopItems) :
        (TopItems[i][1] = <<"o">> /\ TypeOf(TopItems[i][2]) = "obj")
        => args.convert_strings

\* C15: for every object, the path of every entry produced for its scalar and
\* structural fields is prefix + [k1=v1][k2=v2]... + '/' + field, where the
\* bracket suffix lists all key-bucket fields of that object in insertion
\* order exactly once; an object that has only key-bucket fields yields the
\* empty mapping.
C15_PathShape ==
    FlatDone =>
        LET b == BucketsOf(TopItems, args.convert_strings, args.implicit_keys)
            sub == BucketsOf(SubItems, SubConvert, TRUE)
        IN  /\ ShapeOK(TopItems, b, args.prefix)
            /\ SubItems # <<>>
               => ShapeOK(SubItems, sub,
                          args.prefix \o BracketSuffix(TopItems, b.keys)
                            \o <<"/", "o">>)

\* {"a": "x", "b": true, "c": 1} gives [a=x][b=true]/c -> 1
C15_Witness ==
    /\ FlatDone
    /\ args.implicit_keys
    /\ TopItems = <<<<<<"a">>, Str(<<"x">>)>>, <<<<"b">>, Bool(TRUE)>>,
                    <<<<"c">>, PyInt(1)>>>>
    /\ ret.val = <<<<args.prefix \o <<"[", "a", "=", "x", "]",
                                      "[", "b", "=", "t", "r", "u", "e", "]",
                                      "/", "c">>, PyInt(1)>>>>

RECURSIVE HasUnhandled(_)
\* the value is, or holds at some position, a value that is no object, array,
\* string, number or boolean
HasUnhandled(value) ==
    IF TypeOf(value) = "obj"
      THEN \E i \in 1..Len(ValueOf(value)) : HasUnhandled(ValueOf(value)[i][2])
    ELSE IF TypeOf(value) = "list"
      THEN \E i \in 1..Len(ValueOf(value)) : HasUnhandled(ValueOf(value)[i])
    ELSE TypeOf(value) \notin {"str", "int", "float", "bool"}

\* C16: flatten_yang_json raises whenever its input holds, at any position
\* (top-level value, array element, object field), a value that is not an
\* object, array, string, number or boolean, such as null; such a value is
\* never dropped silently.
C16_UnhandledRaises ==
    (call = "flatten_yang_json" /\ ret # Pending /\ HasUnhandled(args.yang_json))
    => ret.st = "raised"

----------------------------------------------------------------------------
(* Claims about flatten, checked under SpecFlatten *)

\* some notification of the message has a Path both among the paths of its
\* updates and among its deletes
Conflict ==
    \E n \in 1..Len(args.message.notification) :
        LET notification == args.message.notification[n]
        IN  \E i \in 1..Len(notification.update), j \in 1..Len(notification.delete) :
                notification.update[i].path = notification.delete[j]

\* C17: flattening a notification in which some path appears both among the
\* updates and among the deletes raises and returns no mapping; the conflict
\* is never resolved silently.
C17_ConflictRaises ==
    (call = "flatten" /\ ret # Pending /\ Conflict) => ret.st = "raised"

----------------------------------------------------------------------------
(* combine_configs and xpath_to_json, xpath_util.py 98-177 *)

\* a fragment for xpath_to_json: (xpath, config, is_key)
Cfg(xp, config, is_key) == [xpath |-> xp, config |-> config, is_key |-> is_key]

\* "/".join(names), also of no name
JoinSlash(names) == IF names = <<>> THEN <<>> ELSE Join(names)

\* reversed(s)
Reverse(s) == [i \in 1..Len(s) |-> s[Len(s) + 1 - i]]

\* lines 152-156: the segments of the xpath from the last to the first, the
\* empty ones skipped
ReversedSegs(xp) == SelectSeq(Reverse(Split(xp, "/")), LAMBDA seg : seg # <<>>)

\* payload[seg] of a dict that has the key
DictGet(d, k) == d[DictIndex(d, k)][2]

\* lines 157-175: the payload after the segment seg has taken the config
Fold(payload, seg, config, is_key) ==
    IF payload # <<>> THEN
        IF is_key THEN
            IF DictIndex(payload, seg) # 0 THEN
                \* lines 160-163: payload[seg].append(config) or .update(config)
                IF TypeOf(DictGet(payload, seg)) = "list"
                  THEN DictSet(payload, seg,
                               List(Append(ValueOf(DictGet(payload, seg)), Obj(config))))
                ELSE IF TypeOf(DictGet(payload, seg)) = "obj"
                  THEN DictSet(payload, seg,
                               Obj(DictUpdate(ValueOf(DictGet(payload, seg)), config)))
                ELSE payload
            \* lines 165-166
            ELSE <<<<seg, List(<<Obj(DictUpdate(payload, config))>>)>>>>
        \* lines 168-169
        ELSE <<<<seg, Obj(DictUpdate(config, payload))>>>>
    \* lines 172-175
    ELSE IF is_key THEN <<<<seg, List(<<Obj(config)>>)>>>>
    ELSE <<<<seg, Obj(config)>>>>

\* lines 119-122: the index (from 0) at which the loop over zip(lp, xp) stops
\* and whether it stopped at a difference
Divergence(lp, xp) ==
    LET n == Min({Len(lp), Len(xp)})
        differ == {i \in 1..n : lp[i] # xp[i]}
    IN  IF differ = {} THEN [i |-> n - 1, found |-> FALSE]
        ELSE [i |-> Min(differ) - 1, found |-> TRUE]

RECURSIVE xpath_to_json(_, _, _)
RECURSIVE combine_configs(_, _, _)

\* lines 114-127
combine_configs(payload, last_xpath, cfg) ==
    LET xp == Split(cfg.xpath, "/")
        d == Divergence(Split(last_xpath, "/"), xp)
        top == IF d.found THEN xp[d.i + 1] ELSE <<>>
        base == <<"/">> \o JoinSlash(SubSeq(xp, d.i + 1, Len(xp)))
    IN  DictSet(payload, top,
                Obj(xpath_to_json(<<Cfg(base, cfg.config, FALSE)>>, <<>>, <<>>)))

\* lines 143-177; the configs are those the loop has not visited yet
xpath_to_json(configs, last_xpath, payload) ==
    IF configs = <<>> THEN payload
    ELSE LET cfg == Head(configs)
             segs == ReversedSegs(cfg.xpath)
         IN  IF last_xpath # <<>> /\ ~Contains(last_xpath, cfg.xpath)
               \* lines 150-151
               THEN xpath_to_json(Tail(configs), cfg.xpath,
                                  combine_configs(payload, last_xpath, cfg))
             \* no segment: the loop goes on to the next fragment
             ELSE IF segs = <<>>
               THEN xpath_to_json(Tail(configs), last_xpath, payload)
             \* lines 170 and 176: the first segment visited returns
             ELSE xpath_to_json(Tail(configs), cfg.xpath,
                                Fold(payload, segs[1], cfg.config, cfg.is_key))

----------------------------------------------------------------------------
(* get_payload, xpath_util.py 181-291 *)

DigitChar(d) == <<"0", "1", "2", "3", "4", "5", "6", "7", "8", "9">>[d + 1]

RECURSIVE NatText(_)
NatText(n) == IF n < 10 THEN <<DigitChar(n)>> ELSE NatText(n \div 10) \o <<DigitChar(n % 10)>>

\* str(n) of an int
IntText(n) == IF n < 0 THEN <<"-">> \o NatText(0 - n) ELSE NatText(n)

\* str(v), as '{1}'.format(v) writes a value
PyStr(value) ==
    CASE TypeOf(value) = "str" -> ValueOf(value)
      [] TypeOf(value) = "int" -> IntText(ValueOf(value))
      [] TypeOf(value) = "bool" -> IF ValueOf(value) THEN <<"T", "r", "u", "e">>
                                   ELSE <<"F", "a", "l", "s", "e">>
      [] TypeOf(value) = "null" -> <<"N", "o", "n", "e">>

\* os.path.commonprefix(m): the longest text every member starts with
commonprefix(m) ==
    IF m = <<>> THEN <<>>
    ELSE LET n == Min({Len(m[i]) : i \in 1..Len(m)})
             agree == {j \in 0..n : \A i \in 1..Len(m) : SubSeq(m[i], 1, j) = SubSeq(m[1], 1, j)}
         IN  SubSeq(m[1], 1, Max(agree))

RECURSIVE RE_FIND_KEYS(_)
\* re.findall(RE_FIND_KEYS, s): from each "[" to the nearest "]" after it
RE_FIND_KEYS(s) ==
    LET opens == {i \in 1..Len(s) : s[i] = "["}
        closes == {j \in 1..Len(s) : s[j] = "]" /\ opens # {} /\ j > Min(opens)}
    IN  IF opens = {} \/ closes = {} THEN <<>>
        ELSE <<SubSeq(s, Min(opens), Min(closes))>>
             \o RE_FIND_KEYS(SubSeq(s, Min(closes) + 1, Len(s)))

\* lines 201-205: the first segment with a "[", in a sequence of at most one
FirstKeySeg(xp) ==
    LET with == SelectSeq(Split(xp, "/"), LAMBDA seg : Contains(seg, <<"[">>))
    IN  IF with = <<>> THEN <<>> ELSE <<Head(with)>>

\* lines 193-205; a fragment is the pair (xpath, config)
first_key(configs) ==
    {FirstKeySeg(configs[i][1])[1] : i \in {j \in 1..Len(configs) : FirstKeySeg(configs[j][1]) # <<>>}}

\* line 218: '[{0}="{1}"]'.format(k, v)
KeyPredicate(k, v) == <<"[">> \o k \o <<"=", "\"">> \o PyStr(v) \o <<"\"", "]">>

\* lines 214-215
InUpdate(key, config) == Contains(config[1], key)

\* lines 216-222: the fragment sets keys of the first keyed segment only
InRemove(key, config) ==
    /\ ~InUpdate(key, config)
    /\ \A i \in 1..Len(config[2]) : Contains(key, KeyPredicate(config[2][i][1], config[2][i][2]))

\* Groups that keeps the fragments that set the keys of the first keyed segment
Groups_KeepSetters(configs, key) ==
    LET update == SelectSeq(configs, LAMBDA c : InUpdate(key, c))
        rest == SelectSeq(configs, LAMBDA c : ~InUpdate(key, c))
    IN  <<update>> \o (IF rest = <<>> THEN <<>> ELSE <<rest>>)

\* lines 208-235: the groups, key being the member of first_key that the loop
\* over the set visits first
Groups(configs, key) ==
    LET update == SelectSeq(configs, LAMBDA c : InUpdate(key, c))
        rest == SelectSeq(configs, LAMBDA c : ~InUpdate(key, c) /\ ~InRemove(key, c))
    IN  <<update>> \o (IF rest = <<>> THEN <<>> ELSE <<rest>>)

\* lines 234-235 when no xpath has a key
Ungrouped(configs) == IF configs = <<>> THEN <<>> ELSE <<configs>>

RECURSIVE Consolidate(_, _)
\* lines 241-250: the fragments of one group with those of the same xpath
\* merged into the first of them
Consolidate(update, done) ==
    IF update = <<>> THEN done
    ELSE LET seg == Head(update)
             at == {i \in 1..Len(done) : done[i][1] = seg[1]}
         IN  Consolidate(Tail(update),
                IF at = {} THEN Append(done, seg)
                ELSE [done EXCEPT ![Min(at)] = <<seg[1], DictUpdate(done[Min(at)][2], seg[2])>>])

\* lines 272-274
IsKey(keys, config) ==
    \E i \in 1..Len(keys) : \E j \in 1..Len(config) : Contains(keys[i], config[j][1])

\* xpath[len(common_xpath):]
SliceFrom(s, n) == SubSeq(s, n + 1, Len(s))

\* tmp after tmp.pop()
Popped(tmp) == SubSeq(tmp, 1, Len(tmp) - 1)

RECURSIVE Compress(_, _, _, _)
\* lines 259-278: the loop over the reversed config_compressed
Compress(config_compressed, common_xpath, keys, cfg_compressed) ==
    IF config_compressed = <<>>
      THEN [common_xpath |-> common_xpath, cfgs |-> cfg_compressed]
    ELSE LET seg == Head(config_compressed)
             cut == SliceFrom(seg[1], Len(common_xpath))
             tmp == Split(common_xpath, "/")
             moved == StartsWith(cut, <<"[">>)
             end_path == IF moved THEN <<"/">> \o tmp[Len(tmp)] \o cut ELSE cut
         IN  Compress(Tail(config_compressed),
                      IF moved THEN JoinSlash(Popped(tmp)) ELSE common_xpath,
                      keys \o RE_FIND_KEYS(end_path),
                      Append(cfg_compressed, Cfg(end_path, seg[2], IsKey(keys, seg[2]))))

RECURSIVE CompressUpdates(_, _)
\* lines 238-279: xpaths keeps the xpaths of the groups before
CompressUpdates(updates, xpaths) ==
    IF updates = <<>> THEN <<>>
    ELSE LET config_compressed == Consolidate(Head(updates), <<>>)
             seen == xpaths \o [i \in 1..Len(config_compressed) |-> config_compressed[i][1]]
         IN  <<Compress(Reverse(config_compressed), commonprefix(seen), <<>>, <<>>)>>
             \o CompressUpdates(Tail(updates), seen)

----------------------------------------------------------------------------
(* json.dumps and json.loads of strings, integers, booleans, null, objects
   and arrays *)

RECURSIVE Escaped(_)
\* the characters of a string between its quotes
Escaped(s) ==
    IF s = <<>> THEN <<>>
    ELSE (IF Head(s) \in {"\"", "\\"} THEN <<"\\", Head(s)>> ELSE <<Head(s)>>)
         \o Escaped(Tail(s))

Quoted(s) == <<"\"">> \o Escaped(s) \o <<"\"">>

RECURSIVE dumps(_)
RECURSIVE DumpsItems(_)
RECURSIVE DumpsElems(_)

\* "k": v, "k": v
DumpsItems(items) ==
    IF items = <<>> THEN <<>>
    ELSE Quoted(Head(items)[1]) \o <<":", " ">> \o dumps(Head(items)[2])
         \o (IF Tail(items) = <<>> THEN <<>> ELSE <<",", " ">> \o DumpsItems(Tail(items)))

\* v, v
DumpsElems(elems) ==
    IF elems = <<>> THEN <<>>
    ELSE dumps(Head(elems))
         \o (IF Tail(elems) = <<>> THEN <<>> ELSE <<",", " ">> \o DumpsElems(Tail(elems)))

\* json.dumps(value), the text that .encode('utf-8') turns into bytes
dumps(value) ==
    CASE TypeOf(value) = "str" -> Quoted(ValueOf(value))
      [] TypeOf(value) = "int" -> IntText(ValueOf(value))
      [] TypeOf(value) = "bool" -> DumpsBool(ValueOf(value))
      [] TypeOf(value) = "null" -> <<"n", "u", "l", "l">>
      [] TypeOf(value) = "obj" -> <<"{">> \o DumpsItems(ValueOf(value)) \o <<"}">>
      [] TypeOf(value) = "list" -> <<"[">> \o DumpsElems(ValueOf(value)) \o <<"]">>

\* a value read and the index after it
Read(v, next) == [val |-> v, next |-> next]

\* the reading goes on with what r read
Next2(r, Then(_, _)) == Then(r.val, r.next)

RECURSIVE SkipSpace(_, _)
SkipSpace(s, i) == IF i <= Len(s) /\ s[i] = " " THEN SkipSpace(s, i + 1) ELSE i

RECURSIVE ReadChars(_, _, _)
\* the characters of a string up to its closing quote, i after the opening one
ReadChars(s, i, acc) ==
    IF s[i] = "\"" THEN Read(acc, i + 1)
    ELSE IF s[i] = "\\" THEN ReadChars(s, i + 2, Append(acc, s[i + 1]))
    ELSE ReadChars(s, i + 1, Append(acc, s[i]))

\* the index after the digits from i on
RECURSIVE DigitsEnd(_, _)
DigitsEnd(s, i) == IF i <= Len(s) /\ s[i] \in Digits THEN DigitsEnd(s, i + 1) ELSE i

ReadNumber(s, i) ==
    IF s[i] = "-"
      THEN Read(PyInt(0 - Decimal(SubSeq(s, i + 1, DigitsEnd(s, i + 1) - 1))), DigitsEnd(s, i + 1))
      ELSE Read(PyInt(Decimal(SubSeq(s, i, DigitsEnd(s, i) - 1))), DigitsEnd(s, i))

RECURSIVE ReadValue(_, _)
RECURSIVE ReadMembers(_, _, _)
RECURSIVE ReadElements(_, _, _)

\* the members of an object from the key at i on; a repeated key keeps the
\* last value
ReadMembers(s, i, acc) ==
    Next2(ReadChars(s, i + 1, <<>>), LAMBDA k, afterKey :
        Next2(ReadValue(s, SkipSpace(s, SkipSpace(s, afterKey) + 1)), LAMBDA v, afterValue :
            IF s[SkipSpace(s, afterValue)] = ","
              THEN ReadMembers(s, SkipSpace(s, SkipSpace(s, afterValue) + 1), DictSet(acc, k, v))
              ELSE Read(Obj(DictSet(acc, k, v)), SkipSpace(s, afterValue) + 1)))

\* the elements of an array from the value at i on
ReadElements(s, i, acc) ==
    Next2(ReadValue(s, i), LAMBDA v, afterValue :
        IF s[SkipSpace(s, afterValue)] = ","
          THEN ReadElements(s, SkipSpace(s, SkipSpace(s, afterValue) + 1), Append(acc, v))
          ELSE Read(List(Append(acc, v)), SkipSpace(s, afterValue) + 1))

ReadValue(s, i) ==
    CASE s[i] = "{" ->
            IF s[SkipSpace(s, i + 1)] = "}" THEN Read(Obj(<<>>), SkipSpace(s, i + 1) + 1)
            ELSE ReadMembers(s, SkipSpace(s, i + 1), <<>>)
      [] s[i] = "[" ->
            IF s[SkipSpace(s, i + 1)] = "]" THEN Read(List(<<>>), SkipSpace(s, i + 1) + 1)
            ELSE ReadElements(s, SkipSpace(s, i + 1), <<>>)
      [] s[i] = "\"" -> Next2(ReadChars(s, i + 1, <<>>), LAMBDA v, n : Read(Str(v), n))
      [] s[i] = "t" -> Read(Bool(TRUE), i + 4)
      [] s[i] = "f" -> Read(Bool(FALSE), i + 5)
      [] s[i] = "n" -> Read(Null, i + 4)
      [] OTHER -> ReadNumber(s, i)

\* json.loads(text) of a text that json.dumps wrote
loads(text) == ReadValue(text, SkipSpace(text, 1)).val

----------------------------------------------------------------------------
(* get_payload, lines 281-291, and the calls *)

\* lines 281-291: the pairs (common_xpath, bytes)
Encode(compressed_updates) ==
    [i \in 1..Len(compressed_updates) |->
        <<compressed_updates[i].common_xpath,
          dumps(Obj(xpath_to_json(compressed_updates[i].cfgs, <<>>, <<>>)))>>]

\* get_payload(configs); keys holds the member of first_key visited first,
\* if any
get_payload(configs, keys) ==
    Encode(CompressUpdates(IF keys = <<>> THEN Ungrouped(configs)
                           ELSE Groups(configs, keys[1]), <<>>))

\* the orders in which the loop of line 209 can start
FirstVisited(configs) ==
    IF first_key(configs) = {} THEN {<<>>} ELSE {<<key>> : key \in first_key(configs)}

----------------------------------------------------------------------------
(* The fragments given to get_payload and xpath_to_json *)

\* the xpaths of the fragments: /a, /a/b, /a/c, /a/b/c, /a/b[k="1"],
\* /a/b[k="1"]/c, /a/b[k="1"]/d, /a/b[k="2"]/c
PathA ==
    <<"/", "a">>

PathAB ==
    <<"/", "a", "/", "b">>

PathAC ==
    <<"/", "a", "/", "c">>

PathABC ==
    <<"/", "a", "/", "b", "/", "c">>

PathABk1 ==
    <<"/", "a", "/", "b", "[", "k", "=", "\"", "1", "\"", "]">>

PathABk1C ==
    <<"/", "a", "/", "b", "[", "k", "=", "\"", "1", "\"", "]", "/", "c">>

PathABk1D ==
    <<"/", "a", "/", "b", "[", "k", "=", "\"", "1", "\"", "]", "/", "d">>

PathABk2C ==
    <<"/", "a", "/", "b", "[", "k", "=", "\"", "2", "\"", "]", "/", "c">>

\* the parts of the xpaths of tests/test_xpath.py, lines 107-124
AclSet ==
    <<"/", "a", "c", "l", "/", "a", "c", "l", "-", "s", "e", "t", "s", "/",
    "a", "c", "l", "-", "s", "e", "t">>

AclSetKeys ==
    <<"[", "n", "a", "m", "e", "=", "\"", "t", "e", "s", "t", "a", "c", "l",
    "\"", "]", "[", "t", "y", "p", "e", "=", "\"", "A", "C", "L", "_", "I",
    "P", "V", "4", "\"", "]">>

AclEntries ==
    <<"/", "a", "c", "l", "-", "e", "n", "t", "r", "i", "e", "s">>

AclEntry ==
    <<"/", "a", "c", "l", "-", "e", "n", "t", "r", "y">>

AclEntryKey ==
    <<"[", "s", "e", "q", "u", "e", "n", "c", "e", "-", "i", "d", "=", "\"",
    "1", "0", "\"", "]">>

Ipv4Config ==
    <<"/", "i", "p", "v", "4", "/", "c", "o", "n", "f", "i", "g">>

ActionsConfig ==
    <<"/", "a", "c", "t", "i", "o", "n", "s", "/", "c", "o", "n", "f", "i",
    "g">>

NameLeaf ==
    <<"n", "a", "m", "e">>

TestAcl ==
    <<"t", "e", "s", "t", "a", "c", "l">>

TypeLeaf ==
    <<"t", "y", "p", "e">>

AclIpv4 ==
    <<"A", "C", "L", "_", "I", "P", "V", "4">>

SequenceId ==
    <<"s", "e", "q", "u", "e", "n", "c", "e", "-", "i", "d">>

Ten ==
    <<"1", "0">>

DestinationAddress ==
    <<"d", "e", "s", "t", "i", "n", "a", "t", "i", "o", "n", "-", "a", "d",
    "d", "r", "e", "s", "s">>

DestinationValue ==
    <<"2", "0", ".", "2", "0", ".", "2", "0", ".", "1", "/", "3", "2">>

Protocol ==
    <<"p", "r", "o", "t", "o", "c", "o", "l">>

IpTcp ==
    <<"I", "P", "_", "T", "C", "P">>

SourceAddress ==
    <<"s", "o", "u", "r", "c", "e", "-", "a", "d", "d", "r", "e", "s", "s">>

SourceValue ==
    <<"1", "0", ".", "1", "0", ".", "1", "0", ".", "1", "0", "/", "3", "2">>

ForwardingAction ==
    <<"f", "o", "r", "w", "a", "r", "d", "i", "n", "g", "-", "a", "c", "t",
    "i", "o", "n">>

Drop ==
    <<"D", "R", "O", "P">>

\* a fragment {xpath: {leaf: value}}
Fragment(xp, leaf, value) == <<xp, <<<<leaf, value>>>>>>

\* the "update" list of PARSE_XPATH_TO_GNMI, tests/test_xpath.py 107-124
AclUpdate ==
    LET acl_set == AclSet \o AclSetKeys
        acl_entry == acl_set \o AclEntries \o AclEntry
        keyed == acl_entry \o AclEntryKey
    IN  << Fragment(AclSet, NameLeaf, Str(TestAcl)),
           Fragment(AclSet, TypeLeaf, Str(AclIpv4)),
           Fragment(acl_entry, SequenceId, Str(Ten)),
           Fragment(keyed \o Ipv4Config, DestinationAddress, Str(DestinationValue)),
           Fragment(keyed \o Ipv4Config, Protocol, Str(IpTcp)),
           Fragment(keyed \o Ipv4Config, SourceAddress, Str(SourceValue)),
           Fragment(keyed \o ActionsConfig, ForwardingAction, Str(Drop)) >>

\* the members of s at the indices in S, in their order
SubList(s, S) == SelectSeq([i \in 1..Len(s) |-> IF i \in S THEN <<s[i]>> ELSE <<>>],
                           LAMBDA e : e # <<>>)

Picked(s, S) == [i \in 1..Len(SubList(s, S)) |-> SubList(s, S)[i][1]]

\* the ACL fragments and every selection of them
AclInputs == {Picked(AclUpdate, S) : S \in SUBSET (1..Len(AclUpdate)) \ {{}}}

\* the small fragments: containers, a key setter, keyed list entries
FragmentPool ==
    { Fragment(PathA, <<"x">>, PyInt(1)),
      Fragment(PathAB, <<"x">>, PyInt(1)),
      Fragment(PathAB, <<"k">>, Str(<<"1">>)),
      Fragment(PathAC, <<"y">>, PyInt(2)),
      Fragment(PathABC, <<"x">>, PyInt(1)),
      Fragment(PathABk1, <<"z">>, PyInt(3)),
      Fragment(PathABk1C, <<"x">>, PyInt(1)),
      Fragment(PathABk1D, <<"y">>, PyInt(2)),
      Fragment(PathABk2C, <<"x">>, PyInt(1)) }

\* the longest list of small fragments
MaxFrags == 2

SmallInputs == SeqsUpTo(FragmentPool, MaxFrags)

\* Scenario C of the reconstructor
ScenarioC == << Fragment(PathABk1C, <<"x">>, PyInt(1)), Fragment(PathABk1D, <<"y">>, PyInt(2)) >>

\* the nested values that are flattened and built again
RoundTripValues ==
    LET x1 == Obj(<< <<<<"x">>, PyInt(1)>> >>)
        y2 == Obj(<< <<<<"y">>, PyInt(2)>> >>)
    IN  { x1,
          Obj(<< <<<<"a">>, x1>> >>),
          Obj(<< <<<<"a">>, Obj(<< <<<<"x">>, PyInt(1)>>, <<<<"y">>, PyInt(2)>> >>)>> >>),
          Obj(<< <<<<"a">>, Obj(<< <<<<"b">>, x1>> >>)>> >>),
          Obj(<< <<<<"a">>, Obj(<< <<<<"b">>, x1>>, <<<<"c">>, y2>> >>)>> >>),
          Obj(<< <<<<"a">>, Obj(<< <<<<"l">>,
                List(<< Obj(<< <<<<"k">>, Str(<<"v">>)>>, <<<<"x">>, PyInt(1)>> >>) >>)>> >>)>> >>) }

\* the index of the last "/" of a path, 0 without one
LastSlash(xp) ==
    LET at == {i \in 1..Len(xp) : xp[i] = "/"} IN IF at = {} THEN 0 ELSE Max(at)

\* the flat entries of flatten_yang_json("", V), each as the fragment
\* {parent path: {leaf: value}}
Grouped(V) ==
    Bind(flatten_yang_json(<<>>, V, TRUE, TRUE).val, LAMBDA flat :
        [i \in 1..Len(flat) |->
            Fragment(SubSeq(flat[i][1], 1, LastSlash(flat[i][1]) - 1),
                     SubSeq(flat[i][1], LastSlash(flat[i][1]) + 1, Len(flat[i][1])),
                     flat[i][2])])

RoundTripInputs == {Grouped(V) : V \in RoundTripValues}

\* /a/b[k="1"][j="2"]/d: an entry of a list with two keys
PathABk1j2D ==
    <<"/", "a", "/", "b", "[", "k", "=", "\"", "1", "\"", "]", "[", "j", "=", "\"", "2", "\"", "]", "/", "d">>

\* a keyed entry with a second key, then an entry with the first key only
ScenarioFold == << Fragment(PathABk1j2D, <<"y">>, PyInt(2)), Fragment(PathABk1C, <<"x">>, PyInt(1)) >>

PayloadInputs == SmallInputs \cup AclInputs \cup RoundTripInputs \cup {ScenarioFold}

\* the fragments as the triples of xpath_to_json, none of them a key
Triples(configs) == [i \in 1..Len(configs) |-> Cfg(configs[i][1], configs[i][2], FALSE)]

\* triples with either value of is_key
TripleSeqs(configs) ==
    {[i \in 1..Len(configs) |-> Cfg(configs[i][1], configs[i][2], flags[i])] :
        flags \in [1..Len(configs) -> BOOLEAN]}

ReconstructInputs ==
    UNION {TripleSeqs(configs) : configs \in SmallInputs \cup {ScenarioC}}
    \cup {Triples(configs) : configs \in RoundTripInputs}

PayloadInit ==
    /\ ParserIdle
    /\ Imported
    /\ \/ /\ call = "get_payload"
          /\ args \in [configs : PayloadInputs]
       \/ /\ call = "xpath_to_json"
          /\ args \in [configs : ReconstructInputs]
    /\ ret = Pending

\* a caller runs get_payload(configs)
GetPayload ==
    /\ call = "get_payload"
    /\ ret = Pending
    /\ \E keys \in FirstVisited(args.configs) :
            ret' = Returned(get_payload(args.configs, keys))
    /\ UNCHANGED <<call, args, ParserVars, heap, made>>

\* a caller runs xpath_to_json(configs)
XpathToJson ==
    /\ call = "xpath_to_json"
    /\ ret = Pending
    /\ ret' = Returned(Obj(xpath_to_json(args.configs, <<>>, <<>>)))
    /\ UNCHANGED <<call, args, ParserVars, heap, made>>

PayloadNext ==
    \/ GetPayload
    \/ XpathToJson

SpecPayload == PayloadInit /\ [][PayloadNext]_vars

----------------------------------------------------------------------------
(* Claims about xpath_to_json and get_payload *)

PayloadDone == call \in {"get_payload", "xpath_to_json"} /\ ret.st = "returned"

RECURSIVE Within(_)
\* a JSON value and every value inside it
Within(v) ==
    {v} \cup
    (IF TypeOf(v) \in {"obj", "list"}
       THEN UNION {Within(IF TypeOf(v) = "obj" THEN ValueOf(v)[i][2] ELSE ValueOf(v)[i]) :
                       i \in 1..Len(ValueOf(v))}
       ELSE {})

RECURSIVE SameJson(_, _)
\* deep equality: objects whatever the order of their members
SameJson(v, w) ==
    /\ TypeOf(v) = TypeOf(w)
    /\ CASE TypeOf(v) = "obj" ->
              /\ Len(ValueOf(v)) = Len(ValueOf(w))
              /\ \A i \in 1..Len(ValueOf(v)) :
                    /\ DictIndex(ValueOf(w), ValueOf(v)[i][1]) # 0
                    /\ SameJson(ValueOf(v)[i][2], DictGet(ValueOf(w), ValueOf(v)[i][1]))
         [] TypeOf(v) = "list" ->
              /\ Len(ValueOf(v)) = Len(ValueOf(w))
              /\ \A i \in 1..Len(ValueOf(v)) : SameJson(ValueOf(v)[i], ValueOf(w)[i])
         [] OTHER -> v = w

\* the text of a predicate value without its quotes
WithoutQuotes(s) ==
    IF Len(s) >= 2 /\ Head(s) = "\"" /\ s[Len(s)] = "\"" THEN SubSeq(s, 2, Len(s) - 1) ELSE s

\* the member k: v that the predicate [k=v] or [k="v"] stands for
PredicateItem(p) ==
    LET eq == Min({i \in 1..Len(p) : p[i] = "="})
    IN  <<SubSeq(p, 2, eq - 1), Str(WithoutQuotes(SubSeq(p, eq + 1, Len(p) - 1)))>>

\* the object that holds inner at the segment seg: under the name for a
\* container, in the one entry with the predicates' keys for a list element
WrapSeg(seg, inner) ==
    LET preds == RE_FIND_KEYS(seg)
        name == IF preds = <<>> THEN seg
                ELSE SubSeq(seg, 1, Min({i \in 1..Len(seg) : seg[i] = "["}) - 1)
    IN  IF preds = <<>> THEN Obj(<< <<name, inner>> >>)
        ELSE Obj(<< <<name, List(<< Obj([i \in 1..Len(preds) |-> PredicateItem(preds[i])]
                                        \o ValueOf(inner)) >>)>> >>)

RECURSIVE WrapSegs(_, _)
WrapSegs(segs, inner) ==
    IF segs = <<>> THEN inner ELSE WrapSeg(Head(segs), WrapSegs(Tail(segs), inner))

\* the JSON of a pair of get_payload seen from the root: the payload under
\* the segments of its path
Wrap(pair) ==
    WrapSegs(SelectSeq(Split(pair[1], "/"), LAMBDA seg : seg # <<>>), loads(pair[2]))

\* what the call built: the payload of xpath_to_json, the payloads of
\* get_payload as they are and under their paths
Built ==
    IF call = "xpath_to_json" THEN {ret.val}
    ELSE {loads(ret.val[i][2]) : i \in 1..Len(ret.val)} \cup {Wrap(ret.val[i]) : i \in 1..Len(ret.val)}

IsScenarioC ==
    \/ call = "get_payload" /\ args.configs = ScenarioC
    \/ call = "xpath_to_json" /\ args.configs = Triples(ScenarioC)

\* b holds a list with one entry, in which c is {x: 1} and d is {y: 2}
OneEntryUnderB(v) ==
    /\ TypeOf(v) = "obj"
    /\ DictIndex(ValueOf(v), <<"b">>) # 0
    /\ LET b == DictGet(ValueOf(v), <<"b">>)
       IN  /\ TypeOf(b) = "list"
           /\ Len(ValueOf(b)) = 1
           /\ TypeOf(ValueOf(b)[1]) = "obj"
           /\ LET entry == ValueOf(ValueOf(b)[1])
              IN  /\ DictIndex(entry, <<"c">>) # 0
                  /\ DictIndex(entry, <<"d">>) # 0
                  /\ DictGet(entry, <<"c">>) = Obj(<< <<<<"x">>, PyInt(1)>> >>)
                  /\ DictGet(entry, <<"d">>) = Obj(<< <<<<"y">>, PyInt(2)>> >>)

\* C18: the fragments /a/b[k="1"]/c {x: 1} and /a/b[k="1"]/d {y: 2} are
\* built into one list entry under b that holds c and d side by side, each
\* nested once
C18_ScenarioC_OneEntry ==
    (PayloadDone /\ IsScenarioC) =>
        \E built \in Built : \E v \in Within(built) : OneEntryUnderB(v)

\* the call reconstructs the grouped flat entries of V
Reconstructs(V) ==
    \/ call = "get_payload" /\ args.configs = Grouped(V)
    \/ call = "xpath_to_json" /\ args.configs = Triples(Grouped(V))

\* C19: flattening a nested value V with an empty prefix, grouping the flat
\* entries into fragments and reconstructing them gives a JSON structure
\* deeply equal to V
C19_FlattenReconstructInverse ==
    \A V \in RoundTripValues :
        (PayloadDone /\ Reconstructs(V)) => \E built \in Built : SameJson(built, V)

\* the fragments with a bracketed segment share one first keyed segment and
\* one of them lies below the list element with the next key
SharedFirstKey ==
    /\ call = "get_payload"
    /\ args.configs \in AclInputs
    /\ Cardinality(first_key(args.configs)) = 1
    /\ \E i \in 1..Len(args.configs) : Contains(args.configs[i][1], AclEntry \o AclEntryKey)

\* some object within v has the member leaf: value
HoldsLeaf(v, leaf, value) ==
    \E o \in Within(v) :
        /\ TypeOf(o) = "obj"
        /\ DictIndex(ValueOf(o), leaf) # 0
        /\ DictGet(ValueOf(o), leaf) = value

\* the payload is one list acl-entry with one item, which holds the list key
\* and the leaf of every fragment of the group, and nothing of the fragments
\* that set name and type
OneAclEntry(payload, configs) ==
    /\ TypeOf(payload) = "obj"
    /\ Len(ValueOf(payload)) = 1
    /\ ValueOf(payload)[1][1] = Tail(AclEntry)
    /\ TypeOf(ValueOf(payload)[1][2]) = "list"
    /\ Len(ValueOf(ValueOf(payload)[1][2])) = 1
    /\ LET item == ValueOf(ValueOf(payload)[1][2])[1]
       IN  /\ TypeOf(item) = "obj"
           /\ DictIndex(ValueOf(item), SequenceId) # 0
           /\ DictGet(ValueOf(item), SequenceId) = Str(Ten)
           /\ \A i \in 1..Len(configs) :
                 Contains(configs[i][1], AclSetKeys) =>
                    HoldsLeaf(item, configs[i][2][1][1], configs[i][2][1][2])
           /\ \A o \in Within(item) :
                 TypeOf(o) = "obj" =>
                    DictIndex(ValueOf(o), NameLeaf) = 0 /\ DictIndex(ValueOf(o), TypeLeaf) = 0

\* C20: when the fragments with a bracketed segment share their first keyed
\* segment, get_payload returns one pair whose path ends just before the
\* list element with the next key (.../acl-entries) and whose JSON is one
\* list acl-entry with one item holding the list key and every leaf value;
\* the fragments that set name and type add nothing
C20_OneListItem ==
    (PayloadDone /\ SharedFirstKey) =>
        /\ Len(ret.val) = 1
        /\ ret.val[1][1] = AclSet \o AclSetKeys \o AclEntries
        /\ OneAclEntry(loads(ret.val[1][2]), args.configs)

\* the name of a segment, without its predicates
SegName(seg) ==
    IF Contains(seg, <<"[">>)
      THEN SubSeq(seg, 1, Min({i \in 1..Len(seg) : seg[i] = "["}) - 1)
      ELSE seg

\* the object o has the key and value of every predicate of seg
MatchesPredicates(o, seg) ==
    \A i \in 1..Len(RE_FIND_KEYS(seg)) :
        /\ DictIndex(ValueOf(o), PredicateItem(RE_FIND_KEYS(seg)[i])[1]) # 0
        /\ DictGet(ValueOf(o), PredicateItem(RE_FIND_KEYS(seg)[i])[1])
              = PredicateItem(RE_FIND_KEYS(seg)[i])[2]

\* the objects that the segment seg addresses in the object v: the object
\* under its name, or the entries of the list under its name
Addressed(v, seg) ==
    IF TypeOf(v) # "obj" \/ DictIndex(ValueOf(v), SegName(seg)) = 0 THEN {}
    ELSE LET child == DictGet(ValueOf(v), SegName(seg))
         IN  IF TypeOf(child) = "list"
               THEN {ValueOf(child)[i] : i \in {j \in 1..Len(ValueOf(child)) :
                        /\ TypeOf(ValueOf(child)[j]) = "obj"
                        /\ RE_FIND_KEYS(seg) # <<>> => MatchesPredicates(ValueOf(child)[j], seg)}}
             ELSE IF TypeOf(child) = "obj" /\ RE_FIND_KEYS(seg) = <<>> THEN {child}
             ELSE {}

RECURSIVE LeafLocated(_, _, _, _)
\* v holds leaf: value below the segments segs, each appearing once and in
\* order
LeafLocated(v, segs, leaf, value) ==
    IF segs = <<>>
      THEN TypeOf(v) = "obj" /\ DictIndex(ValueOf(v), leaf) # 0 /\ DictGet(ValueOf(v), leaf) = value
      ELSE \E below \in Addressed(v, Head(segs)) : LeafLocated(below, Tail(segs), leaf, value)

\* the fragment only restates key values of a first keyed segment
KeySetter(configs, config) == \E key \in first_key(configs) : InRemove(key, config)

\* the pair emitted for the fragment's group holds the fragment's leaf at
\* the part of its path below the pair's path
Emitted(pair, config) ==
    /\ StartsWith(config[1], pair[1])
    /\ \A i \in 1..Len(config[2]) :
          LeafLocated(loads(pair[2]),
                      SelectSeq(Split(SliceFrom(config[1], Len(pair[1])), "/"),
                                LAMBDA seg : seg # <<>>),
                      config[2][i][1], config[2][i][2])

\* C21: the JSON that get_payload emits holds the value of every fragment
\* at the location that the rest of the fragment's path addresses: no
\* segment is dropped or doubled and no leaf value is lost
C21_LeafAtItsPath ==
    (PayloadDone /\ call = "get_payload") =>
        \A i \in 1..Len(args.configs) :
            ~KeySetter(args.configs, args.configs[i]) =>
                \E k \in 1..Len(ret.val) : Emitted(ret.val[k], args.configs[i])

----------------------------------------------------------------------------
(* xml_path_to_path_elem, xpath_util.py 293-402 *)

\* the texts that lines 338-347 look for in a namespace
CiscoIos ==
    <<"/", "C", "i", "s", "c", "o", "-", "I", "O", "S", "-">>

CiscoNx ==
    <<"/", "c", "i", "s", "c", "o", "-", "n", "x">>

OpenconfigNet ==
    <<"/", "o", "p", "e", "n", "c", "o", "n", "f", "i", "g", ".", "n", "e",
    "t">>

IetfYang ==
    <<"u", "r", "n", ":", "i", "e", "t", "f", ":", "p", "a", "r", "a", "m",
    "s", ":", "x", "m", "l", ":", "n", "s", ":", "y", "a", "n", "g", ":">>

NxDeviceModule ==
    <<"C", "i", "s", "c", "o", "-", "N", "X", "-", "O", "S", "-", "d", "e",
    "v", "i", "c", "e">>

OpenconfigDash ==
    <<"o", "p", "e", "n", "c", "o", "n", "f", "i", "g", "-">>

\* the origins, and the texts that lines 359 and 364 look for in a module
Openconfig ==
    <<"o", "p", "e", "n", "c", "o", "n", "f", "i", "g">>

Device ==
    <<"d", "e", "v", "i", "c", "e">>

DME ==
    <<"D", "M", "E">>

\* the values of edit-op
Create ==
    <<"c", "r", "e", "a", "t", "e">>

Merge ==
    <<"m", "e", "r", "g", "e">>

Replace ==
    <<"r", "e", "p", "l", "a", "c", "e">>

Delete ==
    <<"d", "e", "l", "e", "t", "e">>

Remove ==
    <<"r", "e", "m", "o", "v", "e">>

\* the namespaces of the requests
OcAclNamespace ==
    <<"h", "t", "t", "p", ":", "/", "/", "o", "p", "e", "n", "c", "o", "n",
    "f", "i", "g", ".", "n", "e", "t", "/", "y", "a", "n", "g", "/", "a", "c",
    "l">>

IosXeNamespace ==
    <<"h", "t", "t", "p", ":", "/", "/", "c", "i", "s", "c", "o", ".", "c",
    "o", "m", "/", "n", "s", "/", "y", "a", "n", "g", "/", "C", "i", "s", "c",
    "o", "-", "I", "O", "S", "-", "X", "E", "-", "n", "a", "t", "i", "v",
    "e">>

NxNamespace ==
    <<"h", "t", "t", "p", ":", "/", "/", "c", "i", "s", "c", "o", ".", "c",
    "o", "m", "/", "n", "s", "/", "y", "a", "n", "g", "/", "c", "i", "s", "c",
    "o", "-", "n", "x", "-", "o", "s", "-", "d", "e", "v", "i", "c", "e">>

IetfNamespace ==
    <<"u", "r", "n", ":", "i", "e", "t", "f", ":", "p", "a", "r", "a", "m",
    "s", ":", "x", "m", "l", ":", "n", "s", ":", "y", "a", "n", "g", ":", "i",
    "e", "t", "f", "-", "i", "n", "t", "e", "r", "f", "a", "c", "e", "s">>

OtherNamespace ==
    <<"h", "t", "t", "p", ":", "/", "/", "e", "x", "a", "m", "p", "l", "e",
    ".", "c", "o", "m", "/", "n", "s">>

\* their prefixes
OcAcl ==
    <<"o", "c", "-", "a", "c", "l">>

Ios ==
    <<"i", "o", "s">>

Nx ==
    <<"n", "x">>

IfPfx ==
    <<"i", "f">>

Pfx ==
    <<"p">>

\* the xpaths and values of the nodes
XpathOcName ==
    <<"/", "o", "c", "-", "a", "c", "l", ":", "a", "c", "l", "/", "o", "c",
    "-", "a", "c", "l", ":", "n", "a", "m", "e">>

XpathOcType ==
    <<"/", "o", "c", "-", "a", "c", "l", ":", "a", "c", "l", "/", "o", "c",
    "-", "a", "c", "l", ":", "t", "y", "p", "e">>

XpathIosName ==
    <<"/", "i", "o", "s", ":", "n", "a", "t", "i", "v", "e", "/", "i", "o",
    "s", ":", "n", "a", "m", "e">>

XpathNxName ==
    <<"/", "n", "x", ":", "S", "y", "s", "t", "e", "m", "/", "n", "x", ":",
    "n", "a", "m", "e">>

XpathOther ==
    <<"/", "p", ":", "a", "/", "p", ":", "b">>

XpathOcAcl ==
    <<"/", "o", "c", "-", "a", "c", "l", ":", "a", "c", "l">>

ValueV ==
    <<"v">>

ValueOcT ==
    <<"o", "c", "-", "a", "c", "l", ":", "T">>

RECURSIVE ReplaceAll(_, _, _)
\* s.replace(old, new) for a non-empty old
ReplaceAll(text, old, new) ==
    Bind(text, LAMBDA s :
        LET at == {i \in 1..(Len(s) - Len(old) + 1) : SubSeq(s, i, i + Len(old) - 1) = old}
        IN  IF at = {} THEN s
            ELSE SubSeq(s, 1, Min(at) - 1) \o new
                 \o ReplaceAll(SubSeq(s, Min(at) + Len(old), Len(s)), old, new))

\* a node of the request; has_xpath is 'xpath' in node, value and edit_op
\* are node.get(..., '')
Node(has_xpath, xp, value, edit_op) ==
    [has_xpath |-> has_xpath, xpath |-> xp, value |-> value, edit_op |-> edit_op]

\* lines 338-347: the module that the namespace gives; module is the local
\* variable as the iteration before left it, <<>> while it is unbound
ModuleOf(nspace, module) ==
    IF Contains(nspace, CiscoIos) THEN <<SliceFrom(nspace, LastSlash(nspace))>>
    ELSE IF Contains(nspace, CiscoNx) THEN <<NxDeviceModule>>
    ELSE IF Contains(nspace, OpenconfigNet)
      THEN <<OpenconfigDash \o SliceFrom(nspace, LastSlash(nspace))>>
    ELSE IF Contains(nspace, IetfYang) THEN <<ReplaceAll(nspace, IetfYang, <<>>)>>
    ELSE module

RECURSIVE NamespaceLoop(_, _, _)
\* lines 337-349: namespace_modules, or an UnboundLocalError at line 348
NamespaceLoop(namespace, module, namespace_modules) ==
    IF namespace = <<>> THEN Returned(namespace_modules)
    ELSE Bind(ModuleOf(Head(namespace)[2], module), LAMBDA m :
            IF m = <<>> THEN Raised
            ELSE NamespaceLoop(Tail(namespace), m,
                    IF m[1] # <<>> THEN DictSet(namespace_modules, Head(namespace)[1], m[1])
                    ELSE namespace_modules))

\* lines 359-368 for one prefix: origin, xpath and value after it
Cleared(pfx, ns, s) ==
    IF Contains(s.xpath, pfx) /\ (Contains(ns, Openconfig) \/ Contains(ns, Device))
      THEN [origin |-> IF Contains(ns, Openconfig) THEN Openconfig ELSE Device,
            xpath |-> ReplaceAll(s.xpath, pfx \o <<":">>, <<>>),
            value |-> IF TypeOf(s.value) = "str"
                        THEN Str(ReplaceAll(ValueOf(s.value), pfx \o <<":">>, <<>>))
                        ELSE s.value]
      ELSE s

RECURSIVE PrefixLoop(_, _)
\* lines 357-368
PrefixLoop(namespace_modules, s) ==
    IF namespace_modules = <<>> THEN s
    ELSE Bind(Cleared(Head(namespace_modules)[1], Head(namespace_modules)[2], s),
              LAMBDA t : PrefixLoop(Tail(namespace_modules), t))

\* message['delete'] is a list until line 400 makes it a set
EmptyList == [kind |-> "list", elems |-> {}]

\* set(xpath): the characters of the xpath
CharSet(xp) == {<<xp[i]>> : i \in 1..Len(xp)}

\* lines 369-401: the message after a node with the cleared xpath and value
Edited(message, edit_op, xp, value) ==
    IF edit_op # <<>> THEN
        IF edit_op \in {Create, Merge, Replace} THEN
            LET xpath_lst == Split(xp, "/")
                entry == Fragment(JoinSlash(Popped(xpath_lst)), xpath_lst[Len(xpath_lst)], value)
            IN  IF edit_op = Replace
                  THEN [message EXCEPT !.replace = Append(@, entry)]
                  ELSE [message EXCEPT !.update = Append(@, entry)]
        ELSE IF edit_op \in {Delete, Remove} THEN
            \* lines 397-400
            IF message.delete.elems # {}
              THEN [message EXCEPT !.delete.elems = @ \cup {xp}]
              ELSE [message EXCEPT !.delete = [kind |-> "set", elems |-> CharSet(xp)]]
        ELSE message
    ELSE [message EXCEPT !.get = Append(@, xp)]

RECURSIVE NodeLoop(_, _, _, _)
\* lines 351-401
NodeLoop(nodes, namespace_modules, message, org) ==
    IF nodes = <<>>
      THEN [namespace_modules |-> namespace_modules, message |-> message, origin |-> org]
    ELSE IF ~Head(nodes).has_xpath
      THEN NodeLoop(Tail(nodes), namespace_modules, message, org)
    ELSE Bind(PrefixLoop(namespace_modules,
                         [origin |-> org, xpath |-> Head(nodes).xpath, value |-> Head(nodes).value]),
              LAMBDA s :
                Bind(Edited(message, Head(nodes).edit_op, s.xpath, s.value), LAMBDA msg :
                    NodeLoop(Tail(nodes), namespace_modules, msg, s.origin)))

\* xml_path_to_path_elem(request); a request without 'nodes' returns the
\* empty list paths
xml_path_to_path_elem(request) ==
    IF ~request.has_nodes THEN Returned(<<>>)
    ELSE Try(NamespaceLoop(request.namespace, <<>>, <<>>), LAMBDA namespace_modules :
            Returned(NodeLoop(request.nodes, namespace_modules,
                              [update |-> <<>>, replace |-> <<>>, delete |-> EmptyList, get |-> <<>>],
                              DME)))

\* the namespace dicts of the requests
NamespaceInputs ==
    LET oc == <<OcAcl, OcAclNamespace>>
        ios == <<Ios, IosXeNamespace>>
        nx == <<Nx, NxNamespace>>
        ietf == <<IfPfx, IetfNamespace>>
        other == <<Pfx, OtherNamespace>>
    IN  { <<>>, <<oc>>, <<ios>>, <<nx>>, <<ietf>>, <<other>>,
          <<oc, ios>>, <<ios, oc>>, <<oc, other>>, <<other, oc>>, <<nx, oc>> }

NodePool ==
    { Node(TRUE, XpathOcName, Str(ValueV), Merge),
      Node(TRUE, XpathOcType, Str(ValueOcT), Create),
      Node(TRUE, XpathOcType, PyInt(5), Merge),
      Node(TRUE, XpathIosName, Str(ValueV), Merge),
      Node(TRUE, XpathNxName, Str(ValueV), Create),
      Node(TRUE, XpathOther, Str(ValueV), Merge),
      Node(TRUE, XpathOcName, Str(ValueV), Replace),
      Node(TRUE, XpathOcName, Str(<<>>), Delete),
      Node(TRUE, XpathIosName, Str(<<>>), Remove),
      Node(TRUE, XpathOcAcl, Str(<<>>), <<>>),
      Node(FALSE, <<>>, Str(ValueV), Merge) }

\* the longest list of nodes
MaxNodes == 2

Requests ==
    [has_nodes : {TRUE}, namespace : NamespaceInputs, nodes : SeqsUpTo(NodePool, MaxNodes)]
    \cup [has_nodes : {FALSE}, namespace : NamespaceInputs, nodes : {<<>>}]

XmlInit ==
    /\ ParserIdle
    /\ Imported
    /\ call = "xml_path_to_path_elem"
    /\ args \in [request : Requests]
    /\ ret = Pending

\* a caller runs xml_path_to_path_elem(request)
XmlPathToPathElem ==
    /\ call = "xml_path_to_path_elem"
    /\ ret = Pending
    /\ ret' = xml_path_to_path_elem(args.request)
    /\ UNCHANGED <<call, args, ParserVars, heap, made>>

XmlNext == XmlPathToPathElem

SpecXml == XmlInit /\ [][XmlNext]_vars

----------------------------------------------------------------------------
(* Claims about xml_path_to_path_elem *)

XmlDone == call = "xml_path_to_path_elem" /\ ret.st # "pending"

\* the namespace is one that lines 338-347 know
KnownNamespace(nspace) ==
    \/ Contains(nspace, CiscoIos)
    \/ Contains(nspace, CiscoNx)
    \/ Contains(nspace, OpenconfigNet)
    \/ Contains(nspace, IetfYang)

RECURSIVE Stripped(_, _)
\* the text without the prefix 'pfx:' of every known namespace
Stripped(text, namespace) ==
    IF namespace = <<>> THEN text
    ELSE Stripped(IF KnownNamespace(Head(namespace)[2])
                    THEN ReplaceAll(text, Head(namespace)[1] \o <<":">>, <<>>)
                    ELSE text,
                  Tail(namespace))

\* {parent xpath: {last path segment: value}} of the xpath xp
ParentAndLeaf(xp, value) ==
    Fragment(SubSeq(xp, 1, LastSlash(xp) - 1), SubSeq(xp, LastSlash(xp) + 1, Len(xp)), value)

\* every node has an xpath and the edit-op merge or create
AllMergeOrCreate(request) ==
    /\ request.has_nodes
    /\ \A i \in 1..Len(request.nodes) :
          request.nodes[i].has_xpath /\ request.nodes[i].edit_op \in {Merge, Create}

\* the node's xpath uses a prefix of an openconfig namespace
UsesOpenconfig(node, namespace) ==
    \E i \in 1..Len(namespace) :
        /\ Contains(namespace[i][2], OpenconfigNet)
        /\ Contains(node.xpath, namespace[i][1] \o <<":">>)

\* C22: for nodes with edit-op merge or create the call returns the triple
\* whose update list has one entry {parent xpath: {last segment: value}}
\* per node, in order, with the prefix of every known namespace removed;
\* replace, delete and get are empty; the origin is openconfig when the
\* prefix used is one of an openconfig namespace
C22_UpdatePerNode ==
    (XmlDone /\ AllMergeOrCreate(args.request)) =>
        /\ ret.st = "returned"
        /\ LET request == args.request
               message == ret.val.message
           IN  /\ Len(message.update) = Len(request.nodes)
               /\ \A i \in 1..Len(request.nodes) :
                     \/ message.update[i] =
                           ParentAndLeaf(Stripped(request.nodes[i].xpath, request.namespace),
                                         request.nodes[i].value)
                     \/ /\ TypeOf(request.nodes[i].value) = "str"
                        /\ message.update[i] =
                              ParentAndLeaf(Stripped(request.nodes[i].xpath, request.namespace),
                                            Str(Stripped(ValueOf(request.nodes[i].value),
                                                         request.namespace)))
               /\ message.replace = <<>>
               /\ message.delete = EmptyList
               /\ message.get = <<>>
               /\ (/\ request.nodes # <<>>
                   /\ \A i \in 1..Len(request.nodes) :
                         UsesOpenconfig(request.nodes[i], request.namespace))
                     => ret.val.origin = Openconfig

\* the xpath of a node as lines 357-368 clear it
ClearedXpath(node, namespace_modules) ==
    PrefixLoop(namespace_modules,
               [origin |-> DME, xpath |-> node.xpath, value |-> node.value]).xpath

\* the nodes with an xpath and the edit-op delete or remove
DeleteNodes(request) ==
    {i \in 1..Len(request.nodes) :
        request.nodes[i].has_xpath /\ request.nodes[i].edit_op \in {Delete, Remove}}

\* C23: after the call message['delete'] holds exactly the cleared xpaths
\* of the nodes with edit-op delete or remove, each xpath whole
C23_DeleteWholeXpaths ==
    (XmlDone /\ ret.st = "returned" /\ args.request.has_nodes) =>
        ret.val.message.delete.elems =
            {ClearedXpath(args.request.nodes[i], ret.val.namespace_modules) :
                i \in DeleteNodes(args.request)}

----------------------------------------------------------------------------
(* xpath_to_json, combine_configs and get_payload on objects with identity:
   the default payload and the caller's dicts live on between the calls,
   xpath_util.py 98-291 *)

\* a reference to the object heap[id]
Ref(id) == <<"ref", id>>

\* the items of the dict, or the elements of the list, heap[id]
Items(h, id) == ValueOf(h[id])

RECURSIVE Deref(_, _)
\* the value that v denotes in h, the references followed
Deref(h, v) ==
    IF TypeOf(v) # "ref" THEN v
    ELSE Bind(h[ValueOf(v)], LAMBDA o :
            IF TypeOf(o) = "obj"
              THEN Obj([i \in 1..Len(ValueOf(o)) |->
                          <<ValueOf(o)[i][1], Deref(h, ValueOf(o)[i][2])>>])
            ELSE List([i \in 1..Len(ValueOf(o)) |-> Deref(h, ValueOf(o)[i])]))

RECURSIVE Acyclic(_, _, _)
\* no object under v holds itself, as json.dumps requires ("Circular reference
\* detected"); on is the set of the objects that hold v
Acyclic(h, v, on) ==
    IF TypeOf(v) # "ref" THEN TRUE
    ELSE /\ ValueOf(v) \notin on
         /\ \A i \in 1..Len(Items(h, ValueOf(v))) :
                Acyclic(h, IF TypeOf(h[ValueOf(v)]) = "obj" THEN Items(h, ValueOf(v))[i][2]
                           ELSE Items(h, ValueOf(v))[i],
                        on \cup {ValueOf(v)})

\* the outcome of a step on the heap: the object it yields and the heap after
OnHeap(id, h) == [val |-> id, heap |-> h]

\* lines 157-175 on objects: p is the payload, config the fragment's dict
HeapFold(h, p, seg, config, is_key) ==
    IF Items(h, p) # <<>> THEN
        IF is_key THEN
            IF DictIndex(Items(h, p), seg) # 0 THEN
                LET v == DictGet(Items(h, p), seg)
                IN  \* lines 160-163: payload[seg] is changed in place
                    IF TypeOf(v) = "ref" /\ TypeOf(h[ValueOf(v)]) = "list"
                      THEN OnHeap(p, [h EXCEPT ![ValueOf(v)] =
                                        List(Append(Items(h, ValueOf(v)), Ref(config)))])
                    ELSE IF TypeOf(v) = "ref" /\ TypeOf(h[ValueOf(v)]) = "obj"
                      THEN OnHeap(p, [h EXCEPT ![ValueOf(v)] =
                                        Obj(DictUpdate(Items(h, ValueOf(v)), Items(h, config)))])
                    ELSE OnHeap(p, h)
            \* lines 165-166: payload.update(config), then {seg: [payload]}
            ELSE LET h1 == [h EXCEPT ![p] = Obj(DictUpdate(Items(h, p), Items(h, config)))]
                     h2 == Append(h1, List(<<Ref(p)>>))
                 IN  OnHeap(Len(h2) + 1, Append(h2, Obj(<<<<seg, Ref(Len(h2))>>>>)))
        \* lines 168-169: config.update(payload), then {seg: config}
        ELSE LET h1 == [h EXCEPT ![config] = Obj(DictUpdate(Items(h, config), Items(h, p)))]
             IN  OnHeap(Len(h1) + 1, Append(h1, Obj(<<<<seg, Ref(config)>>>>)))
    \* lines 172-175
    ELSE IF is_key
      THEN LET h1 == Append(h, List(<<Ref(config)>>))
           IN  OnHeap(Len(h1) + 1, Append(h1, Obj(<<<<seg, Ref(Len(h1))>>>>)))
    ELSE OnHeap(Len(h) + 1, Append(h, Obj(<<<<seg, Ref(config)>>>>)))

RECURSIVE heap_xpath_to_json(_, _, _, _)
RECURSIVE heap_combine_configs(_, _, _, _)

\* lines 114-127 on objects: xpath_to_json([cfg]) runs on the default payload,
\* payload.update changes the payload p in place
heap_combine_configs(p, last_xpath, cfg, h) ==
    LET xp == Split(cfg.xpath, "/")
        d == Divergence(Split(last_xpath, "/"), xp)
        top == IF d.found THEN xp[d.i + 1] ELSE <<>>
        base == <<"/">> \o JoinSlash(SubSeq(xp, d.i + 1, Len(xp)))
    IN  Bind(heap_xpath_to_json(<<Cfg(base, cfg.config, FALSE)>>, <<>>, DefaultPayload, h),
             LAMBDA r :
                OnHeap(p, [r.heap EXCEPT ![p] =
                              Obj(DictSet(Items(r.heap, p), top, Ref(r.val)))]))

\* lines 143-177 on objects: p is the payload argument, DefaultPayload when
\* the caller gives none; config is the identity of the fragment's dict
heap_xpath_to_json(configs, last_xpath, p, h) ==
    IF configs = <<>> THEN OnHeap(p, h)
    ELSE LET cfg == Head(configs)
             segs == ReversedSegs(cfg.xpath)
         IN  IF last_xpath # <<>> /\ ~Contains(last_xpath, cfg.xpath)
               THEN Bind(heap_combine_configs(p, last_xpath, cfg, h), LAMBDA r :
                        heap_xpath_to_json(Tail(configs), cfg.xpath, r.val, r.heap))
             ELSE IF segs = <<>>
               THEN heap_xpath_to_json(Tail(configs), last_xpath, p, h)
             ELSE Bind(HeapFold(h, p, segs[1], cfg.config, cfg.is_key), LAMBDA r :
                        heap_xpath_to_json(Tail(configs), cfg.xpath, r.val, r.heap))

\* the fragments (xpath, identity of the dict) with the items the dict has in h
Seen(objects, h) ==
    [i \in 1..Len(objects) |-> <<objects[i][1], Items(h, objects[i][2]), objects[i][2]>>]

\* lines 241-250: xpath_consolidated[xpath], the dict of the first fragment
\* of the group with this xpath
Kept(update, xp) == update[Min({i \in 1..Len(update) : update[i][1] = xp})][3]

RECURSIVE HeapConsolidate(_, _, _)
\* line 246 on objects: xpath_consolidated[xpath].update(config) changes the
\* dict of the first fragment with the xpath
HeapConsolidate(update, n, h) ==
    IF n > Len(update) THEN h
    ELSE HeapConsolidate(update, n + 1,
            IF Kept(update, update[n][1]) = update[n][3] THEN h
            ELSE [h EXCEPT ![Kept(update, update[n][1])] =
                    Obj(DictUpdate(Items(h, Kept(update, update[n][1])),
                                   Items(h, update[n][3])))])

RECURSIVE HeapConsolidateAll(_, _)
HeapConsolidateAll(updates, h) ==
    IF updates = <<>> THEN h
    ELSE HeapConsolidateAll(Tail(updates), HeapConsolidate(Head(updates), 1, h))

\* the triples of one compressed group with the dicts by identity: triple j
\* is made from the j-th of the reversed config_compressed
HeapCfgs(update, cfgs) ==
    LET config_compressed == Reverse(Consolidate(update, <<>>))
    IN  [j \in 1..Len(cfgs) |->
            Cfg(cfgs[j].xpath, Kept(update, config_compressed[j][1]), cfgs[j].is_key)]

RECURSIVE HeapEncode(_, _, _, _)
\* lines 281-291 on objects: each group is built on the default payload and
\* written as JSON before the next group is built; json.dumps raises on a
\* payload that holds itself
HeapEncode(updates, compressed_updates, n, h) ==
    IF n > Len(updates) THEN [st |-> "returned", val |-> <<>>, heap |-> h]
    ELSE Bind(heap_xpath_to_json(HeapCfgs(updates[n], compressed_updates[n].cfgs),
                                 <<>>, DefaultPayload, h),
              LAMBDA r :
                IF ~Acyclic(r.heap, Ref(r.val), {})
                  THEN [st |-> "raised", val |-> <<>>, heap |-> r.heap]
                ELSE Bind(HeapEncode(updates, compressed_updates, n + 1, r.heap), LAMBDA rest :
                        [st |-> rest.st,
                         val |-> <<<<compressed_updates[n].common_xpath,
                                     dumps(Deref(r.heap, Ref(r.val)))>>>> \o rest.val,
                         heap |-> rest.heap]))

\* get_payload(configs) on objects; objects are the fragments (xpath, identity
\* of the dict), keys the member of first_key visited first, if any
heap_get_payload(objects, keys, h) ==
    LET updates == IF keys = <<>> THEN Ungrouped(Seen(objects, h))
                   ELSE Groups(Seen(objects, h), keys[1])
    IN  HeapEncode(updates, CompressUpdates(updates, <<>>), 1, HeapConsolidateAll(updates, h))

----------------------------------------------------------------------------
(* A caller that makes several calls, one after another *)

\* the most calls in a row
MaxCalls == 2

\* the fragment lists the caller passes to get_payload
SharedFragments ==
    { <<>>,
      << Fragment(PathAB, <<"x">>, PyInt(1)) >>,
      << Fragment(PathAB, <<"x">>, PyInt(1)), Fragment(PathAB, <<"y">>, PyInt(2)) >>,
      << Fragment(PathAB, <<"x">>, PyInt(1)), Fragment(PathAC, <<"y">>, PyInt(2)) >>,
      << Fragment(PathABC, <<"x">>, PyInt(1)), Fragment(PathAB, <<"y">>, PyInt(2)) >>,
      << Fragment(PathABC, <<"x">>, PyInt(1)), Fragment(PathAC, <<"y">>, PyInt(2)) >>,
      ScenarioC }

\* the triples the caller passes to xpath_to_json
SharedTriples ==
    { <<>>,
      << Cfg(PathAB, <<<<<<"x">>, PyInt(1)>>>>, FALSE) >>,
      << Cfg(PathAB, <<<<<<"k">>, Str(<<"1">>)>>>>, TRUE) >>,
      << Cfg(PathAC, <<<<<<"y">>, PyInt(2)>>>>, FALSE) >>,
      << Cfg(PathABC, <<<<<<"x">>, PyInt(1)>>>>, FALSE),
         Cfg(PathAB, <<<<<<"y">>, PyInt(2)>>>>, FALSE) >>,
      << Cfg(PathABC, <<<<<<"x">>, PyInt(1)>>>>, FALSE),
         Cfg(PathAB, <<<<<<"k">>, Str(<<"1">>)>>>>, TRUE) >>,
      << Cfg(PathAB, <<<<<<"x">>, PyInt(1)>>>>, FALSE),
         Cfg(PathAC, <<<<<<"y">>, PyInt(2)>>>>, FALSE) >> }

\* the last_xpath arguments: '' is the default
SharedLast == {<<>>, PathAB}

\* the key the caller adds to a dict it was given
Mark == <<"m">>

CallsInit ==
    /\ ParserIdle
    /\ Imported
    /\ call = "import"
    /\ args = <<>>
    /\ ret = Pending

\* the heap after the caller has made the dicts of its fragments
Made(h, configs) == h \o [i \in 1..Len(configs) |-> Obj(configs[i])]

\* xpath_to_json(configs, last_xpath) with the objects at refs, no payload
\* given; args keeps the fragments as the caller built them, the identities of
\* their dicts, the heap before the call and whether the objects were passed
\* to a call before
RunXpathToJson(triples, last_xpath, refs, h, again) ==
    \E r \in {heap_xpath_to_json([i \in 1..Len(triples) |->
                                    Cfg(triples[i].xpath, refs[i], triples[i].is_key)],
                                 last_xpath, DefaultPayload, h)} :
        /\ call' = "xpath_to_json"
        /\ args' = [configs |-> triples, last_xpath |-> last_xpath, refs |-> refs,
                     before |-> h, again |-> again]
        /\ ret' = Returned(Ref(r.val))
        /\ heap' = r.heap

\* get_payload(configs) with the objects at refs
RunGetPayload(configs, refs, h, again) ==
    \E keys \in FirstVisited(configs) :
        \E r \in {heap_get_payload([i \in 1..Len(configs) |-> <<configs[i][1], refs[i]>>],
                                    keys, h)} :
            /\ call' = "get_payload"
            /\ args' = [configs |-> configs, last_xpath |-> <<>>, refs |-> refs,
                         before |-> h, again |-> again]
            /\ ret' = IF r.st = "raised" THEN Raised ELSE Returned(r.val)
            /\ heap' = r.heap

\* the caller builds triples and runs xpath_to_json(configs) or
\* xpath_to_json(configs, last_xpath)
CallXpathToJson ==
    /\ made < MaxCalls
    /\ \E triples \in SharedTriples, last_xpath \in SharedLast :
            RunXpathToJson(triples, last_xpath,
                           [i \in 1..Len(triples) |-> Len(heap) + i],
                           Made(heap, [i \in 1..Len(triples) |-> triples[i].config]), FALSE)
    /\ made' = made + 1
    /\ UNCHANGED ParserVars

\* the caller builds fragments and runs get_payload(configs)
CallGetPayload ==
    /\ made < MaxCalls
    /\ \E configs \in SharedFragments :
            RunGetPayload(configs, [i \in 1..Len(configs) |-> Len(heap) + i],
                          Made(heap, [i \in 1..Len(configs) |-> configs[i][2]]), FALSE)
    /\ made' = made + 1
    /\ UNCHANGED ParserVars

\* the caller runs the call it has made once more, on the same objects
CallAgain ==
    /\ made < MaxCalls
    /\ call \in {"xpath_to_json", "get_payload"}
    /\ \/ /\ call = "xpath_to_json"
          /\ RunXpathToJson(args.configs, args.last_xpath, args.refs, heap, TRUE)
       \/ /\ call = "get_payload"
          /\ RunGetPayload(args.configs, args.refs, heap, TRUE)
    /\ made' = made + 1
    /\ UNCHANGED ParserVars

\* the caller adds a key to the dict that xpath_to_json returned
CallerModifies ==
    /\ call = "xpath_to_json"
    /\ ret.st = "returned"
    /\ call' = "modify"
    /\ heap' = [heap EXCEPT ![ValueOf(ret.val)] =
                    Obj(DictSet(Items(heap, ValueOf(ret.val)), Mark, PyInt(1)))]
    /\ UNCHANGED <<args, ret, made, ParserVars>>

CallsNext ==
    \/ CallXpathToJson
    \/ CallGetPayload
    \/ CallAgain
    \/ CallerModifies

SpecCalls == CallsInit /\ [][CallsNext]_vars

----------------------------------------------------------------------------
(* Claims about the state that the calls share *)

\* a call of xpath_to_json or get_payload has ended, on dicts the caller has
\* just built
FreshCallDone == call \in {"xpath_to_json", "get_payload"} /\ ~args.again

\* the call gave what it gives as the first call after the import
AsFirstCall ==
    IF call = "xpath_to_json"
      THEN /\ Acyclic(heap, ret.val, {})
           /\ Deref(heap, ret.val) = Obj(xpath_to_json(args.configs, args.last_xpath, <<>>))
    ELSE /\ ret.st = "returned"
         /\ \E keys \in FirstVisited(args.configs) : ret.val = get_payload(args.configs, keys)

\* C24: no call reads or writes state that outlives it: after any sequence of
\* calls of xpath_to_json and get_payload (also with last_xpath and no
\* payload, also when the caller changes a returned dict) the default payload
\* of xpath_to_json is empty, and a call on newly built fragments returns
\* what it returns as the first call.
C24_NoSharedState ==
    /\ Items(heap, DefaultPayload) = <<>>
    /\ FreshCallDone => AsFirstCall

\* C30: after a call of get_payload or xpath_to_json every dict of the
\* caller's fragments has the fields and values it had before the call.
C30_InputsUnchanged ==
    call \in {"xpath_to_json", "get_payload"} =>
        \A i \in 1..Len(args.refs) : heap[args.refs[i]] = args.before[args.refs[i]]

----------------------------------------------------------------------------
(* validate_proto_enum, util.py 67-108 *)

\* the names of gnmi_pb2.SubscriptionMode and a name it does not have,
\* tests/test_util.py 22-83
TargetDefined ==
    <<"T", "A", "R", "G", "E", "T", "_", "D", "E", "F", "I", "N", "E", "D">>

OnChange ==
    <<"O", "N", "_", "C", "H", "A", "N", "G", "E">>

Sample ==
    <<"S", "A", "M", "P", "L", "E">>

InvalidValue ==
    <<"I", "N", "V", "A", "L", "I", "D", "_", "V", "A", "L", "U", "E">>

\* the enum of the tests: TARGET_DEFINED = 0, ON_CHANGE = 1, SAMPLE = 2
SubscriptionMode == << <<TargetDefined, 0>>, <<OnChange, 1>>, <<Sample, 2>> >>

\* enum.keys(): the names
EnumKeys(enum) == {Str(enum[i][1]) : i \in 1..Len(enum)}

\* enum.values(): the numbers
EnumValues(enum) == {PyInt(enum[i][2]) : i \in 1..Len(enum)}

\* enum.Value(name) of a name of the enum
EnumValue(enum, name) ==
    PyInt(enum[CHOOSE i \in 1..Len(enum) : Str(enum[i][1]) = name][2])

\* enum.Name(number) of a number of the enum
EnumName(enum, number) ==
    Str(enum[CHOOSE i \in 1..Len(enum) : PyInt(enum[i][2]) = number][1])

\* lines 86-97: the resolved subset, or Raised at an element the enum lacks
ResolvedSubset(enum, subset) ==
    IF \E i \in 1..Len(subset) : subset[i] \notin EnumKeys(enum) \cup EnumValues(enum)
      THEN Raised
    ELSE Returned({IF subset[i] \in EnumKeys(enum) THEN EnumValue(enum, subset[i])
                   ELSE subset[i] : i \in 1..Len(subset)})

\* validate_proto_enum without the test of lines 98-107
validate_proto_enum_AnySubset(value, enum, subset, return_name) ==
    LET enum_value == IF value \in EnumKeys(enum) THEN EnumValue(enum, value) ELSE value
        result == Returned(IF return_name THEN EnumName(enum, enum_value) ELSE enum_value)
    IN  IF value \notin EnumKeys(enum) /\ value \notin EnumValues(enum) THEN Raised
        ELSE IF subset = Null \/ ValueOf(subset) = <<>> THEN result
        ELSE IF ResolvedSubset(enum, ValueOf(subset)).st = "raised" THEN Raised
        ELSE result

\* lines 67-108; subset is Null (None) or a list
validate_proto_enum(value, enum, subset, return_name) ==
    LET enum_value == IF value \in EnumKeys(enum) THEN EnumValue(enum, value) ELSE value
        result == Returned(IF return_name THEN EnumName(enum, enum_value) ELSE enum_value)
    IN  \* lines 72-80
        IF value \notin EnumKeys(enum) /\ value \notin EnumValues(enum) THEN Raised
        \* line 85: "if subset:" is false for None and for the empty list
        ELSE IF subset = Null \/ ValueOf(subset) = <<>> THEN result
        ELSE IF ResolvedSubset(enum, ValueOf(subset)).st = "raised" THEN Raised
        \* lines 98-107
        ELSE IF enum_value \notin ResolvedSubset(enum, ValueOf(subset)).val THEN Raised
        ELSE result

\* the values and the subset elements a caller gives: the names, the numbers,
\* a name and a number that the enum does not have
EnumArguments ==
    {Str(TargetDefined), Str(OnChange), Str(Sample), Str(InvalidValue)}
    \cup {PyInt(n) : n \in 0..3}

\* the most elements of a subset
MaxSubset == 2

Subsets == {Null} \cup {List(s) : s \in SeqsUpTo(EnumArguments, MaxSubset)}

EnumInit ==
    /\ ParserIdle
    /\ Imported
    /\ call = "validate_proto_enum"
    /\ args \in [value : EnumArguments, subset : Subsets, return_name : BOOLEAN]
    /\ ret = Pending

\* a caller runs validate_proto_enum(value_name, value, enum_name,
\* SubscriptionMode, subset, return_name)
ValidateProtoEnum ==
    /\ call = "validate_proto_enum"
    /\ ret = Pending
    /\ ret' = validate_proto_enum(args.value, SubscriptionMode, args.subset, args.return_name)
    /\ UNCHANGED <<call, args, ParserVars, heap, made>>

EnumNext == ValidateProtoEnum

SpecEnum == EnumInit /\ [][EnumNext]_vars

----------------------------------------------------------------------------
(* Claims about validate_proto_enum *)

EnumDone == call = "validate_proto_enum" /\ ret.st # "pending"

\* the value is a name or a number of SubscriptionMode
InSubscriptionMode(v) ==
    \/ v \in {Str(TargetDefined), Str(OnChange), Str(Sample)}
    \/ v \in {PyInt(0), PyInt(1), PyInt(2)}

\* the number that a name or a number of SubscriptionMode stands for
NumberOf(v) ==
    CASE v = Str(TargetDefined) -> PyInt(0)
      [] v = Str(OnChange) -> PyInt(1)
      [] v = Str(Sample) -> PyInt(2)
      [] OTHER -> v

\* the subset allows the value: every member is of the enum and the value's
\* number is the number of a member
Allowed(value, subset) ==
    /\ \A i \in 1..Len(subset) : InSubscriptionMode(subset[i])
    /\ \E i \in 1..Len(subset) : NumberOf(subset[i]) = NumberOf(value)

\* C25: validate_proto_enum returns the number of the value when the value
\* is a name or a number of the enum and, if a subset is given, that number
\* is among the subset's members, each a name or a number of the enum; in
\* every other case it raises.
C25_NumberOrRaise ==
    EnumDone =>
        IF /\ InSubscriptionMode(args.value)
           /\ args.subset # Null => Allowed(args.value, ValueOf(args.subset))
          THEN ret = Returned(NumberOf(args.value))
        ELSE ret = Raised

\* the name that a name or a number of SubscriptionMode stands for
NameOf(v) ==
    CASE v = PyInt(0) -> Str(TargetDefined)
      [] v = PyInt(1) -> Str(OnChange)
      [] v = PyInt(2) -> Str(Sample)
      [] OTHER -> v

\* C25, amended: validate_proto_enum returns the number of the value, or with
\* return_name its name, when the value is a name or a number of the enum
\* and, if a subset with at least one member is given, that number is among
\* the subset's members, each a name or a number of the enum; None and the
\* empty list restrict nothing; in every other case it raises.
C25_NumberNameOrRaise ==
    EnumDone =>
        IF /\ InSubscriptionMode(args.value)
           /\ args.subset \notin {Null, List(<<>>)} => Allowed(args.value, ValueOf(args.subset))
          THEN ret = Returned(IF args.return_name THEN NameOf(args.value)
                              ELSE NumberOf(args.value))
        ELSE ret = Raised

\* test_validate_proto_enum_value_returned_one with the name asked for:
\* "TARGET_DEFINED" and the subset [2, 0]
C25_Witness ==
    /\ EnumDone
    /\ args.value = Str(TargetDefined)
    /\ args.subset = List(<<PyInt(2), PyInt(0)>>)
    /\ args.return_name
    /\ ret = Returned(Str(TargetDefined))

----------------------------------------------------------------------------
(* Claims about the branch of xpath_to_json and the groups of get_payload *)

\* xpath_to_json has returned for two fragments, the first with a segment:
\* the second meets the payload and the last_xpath of the first
SecondMeetsFirst ==
    /\ call = "xpath_to_json"
    /\ ret.st = "returned"
    /\ Len(args.configs) = 2
    /\ ReversedSegs(args.configs[1].xpath) # <<>>

\* the payload after the first fragment
AfterFirst ==
    Fold(<<>>, ReversedSegs(args.configs[1].xpath)[1], args.configs[1].config,
         args.configs[1].is_key)

\* the positions of the segments of xp that the path lp does not have in the
\* same place
Differing(lp, xp) ==
    {i \in 1..Len(Split(xp, "/")) :
        i > Len(Split(lp, "/")) \/ Split(lp, "/")[i] # Split(xp, "/")[i]}

\* the current path does not contain last_xpath as a substring
IsBranch(last_xpath, xp) == ~Contains(xp, last_xpath)

\* the payload with the sub-tree of the path from its first differing segment
\* on under that segment, which is not the empty string
Branched(payload, last_xpath, cfg) ==
    LET xp == Split(cfg.xpath, "/")
        at == Min(Differing(last_xpath, cfg.xpath))
        after == <<"/">> \o JoinSlash(SubSeq(xp, at, Len(xp)))
    IN  /\ Differing(last_xpath, cfg.xpath) # {}
        /\ xp[at] # <<>>
        /\ ret.val = Obj(DictSet(payload, xp[at],
                            Obj(xpath_to_json(<<Cfg(after, cfg.config, FALSE)>>, <<>>, <<>>))))

\* C26: xpath_to_json treats a fragment as a branch exactly when its path
\* does not contain last_xpath as a substring; on a branch the sub-tree built
\* from the path after the divergence is merged into the payload under the
\* first segment at which the path differs from last_xpath, never under the
\* empty string; a fragment that is no branch is folded around the payload.
C26_BranchUnderDifferingSegment ==
    SecondMeetsFirst =>
        IF IsBranch(args.configs[1].xpath, args.configs[2].xpath)
          THEN Branched(AfterFirst, args.configs[1].xpath, args.configs[2])
        ELSE ret.val = Obj(Fold(AfterFirst, ReversedSegs(args.configs[2].xpath)[1],
                                args.configs[2].config, args.configs[2].is_key))

\* the groups of the call, key being the first member of first_key visited
GroupsOf(configs, keys) ==
    IF keys = <<>> THEN Ungrouped(configs) ELSE Groups(configs, keys[1])

\* the xpaths of the fragments of one group
PathsOf(update) == [i \in 1..Len(update) |-> update[i][1]]

\* the emitted path of a group whose prefix, before the fold-back of lines
\* 265-269, is the longest common prefix of its own xpaths
OwnPrefix(update) ==
    Compress(Reverse(Consolidate(update, <<>>)), commonprefix(PathsOf(update)),
             <<>>, <<>>).common_xpath

\* C27: the path prefix of each group that get_payload emits is computed from
\* the paths of that group only: before the fold-back of a predicate it is the
\* longest common string prefix of the group's paths, whatever paths the other
\* group has.
C27_PrefixOfOwnGroup ==
    (call = "get_payload" /\ ret.st = "returned") =>
        \E keys \in FirstVisited(args.configs) :
            /\ Len(ret.val) = Len(GroupsOf(args.configs, keys))
            /\ \A n \in 1..Len(ret.val) :
                    ret.val[n][1] = OwnPrefix(GroupsOf(args.configs, keys)[n])

\* the fragment's leaves are all keys of the chosen keyed segment, each with
\* its value: the fragment sets keys and is dropped
SetsKey(key, c) ==
    \A i \in 1..Len(c[2]) : Contains(key, KeyPredicate(c[2][i][1], c[2][i][2]))

\* the fragments whose path contains the chosen keyed segment
KeyedGroup(configs, key) == SelectSeq(configs, LAMBDA c : Contains(c[1], key))

\* every remaining fragment that is not dropped
CatchAll(configs, key) ==
    SelectSeq(configs, LAMBDA c : ~Contains(c[1], key) /\ ~SetsKey(key, c))

\* the number of groups: without a keyed segment every fragment is of the
\* catch-all group
GroupCount(configs, keys) ==
    IF keys = <<>> THEN (IF configs = <<>> THEN 0 ELSE 1)
    ELSE (IF KeyedGroup(configs, keys[1]) = <<>> THEN 0 ELSE 1)
         + (IF CatchAll(configs, keys[1]) = <<>> THEN 0 ELSE 1)

SubPaths(configs, keys) == CompressUpdates(GroupsOf(configs, keys), <<>>)

\* the consolidated fragments of group n in the order of the loop of line 259
Visited(configs, keys, n) == Reverse(Consolidate(GroupsOf(configs, keys)[n], <<>>))

\* C29: within one group of get_payload the emitted group path followed by a
\* fragment's sub-path is the fragment's original path, and no sub-path starts
\* with "[", also when the trailing name segment is folded back after other
\* fragments of the group were given their sub-path.
C29_PathPlusSubPath ==
    (call = "get_payload" /\ ret.st = "returned") =>
        \E keys \in FirstVisited(args.configs) :
            /\ Len(ret.val) = Len(SubPaths(args.configs, keys))
            /\ \A n \in 1..Len(ret.val) :
                \A j \in 1..Len(SubPaths(args.configs, keys)[n].cfgs) :
                    /\ ret.val[n][1] \o SubPaths(args.configs, keys)[n].cfgs[j].xpath
                            = Visited(args.configs, keys, n)[j][1]
                    /\ ~StartsWith(SubPaths(args.configs, keys)[n].cfgs[j].xpath, <<"[">>)

====
